---- MODULE Spec2Model ----
(***************************************************************************)
(* Calibration resolution and pending-retry engine of the BlaauwPipe       *)
(* pipeline (PracticalAstronomyCrew/ObservationObject).                    *)
(*                                                                         *)
(* Text is modelled as sequences of one-character strings so that the      *)
(* substring tests of the resolver are computed, not assumed.  Time is     *)
(* counted in ticks; a calendar partition (YYMMDD directory) is an         *)
(* integer day.                                                            *)
(***************************************************************************)
EXTENDS Integers, Sequences, FiniteSets, TLC

VARIABLES store, cor_dirs, lsrev, ledger, reduced, last, pass, obs, run, headers

vars == <<store, cor_dirs, lsrev, ledger, reduced, last, pass, obs, run, headers>>

(***************************************************************************)
(* Bounds of the model.                                                    *)
(***************************************************************************)
\* Partitions range over the days -MaxDay .. MaxDay.
MaxDay == 2
\* Largest number of master frame files in the store of the resolver
\* specification.
MaxStore == 2
\* Horizons (max_days_off) tried by the resolver specification: 0 .. MaxHorizon.
MaxHorizon == 3
\* Largest number of entries in the pending log when a reduction is started.
MaxRows == 2
\* Largest number of exposures handed to get_file_clusters, and the latest
\* hour of the night at which one is taken.
MaxFiles == 3
MaxHour == 3
\* Largest number of frames of one kind in the folder of the observed night.
MaxMembers == 2

Days == (0 - MaxDay) .. MaxDay
\* Nights that own a working directory (targets of reductions).
Nights == {0}
\* Cluster indices of a night (early / late calibration sets).
ClusterIdx == {1, 2}
TicksPerDay == Cardinality(ClusterIdx)
Ticks == 0 .. (TicksPerDay - 1)

(***************************************************************************)
(* Text.                                                                   *)
(***************************************************************************)
MASTER_BIAS == <<"m","a","s","t","e","r","_","b","i","a","s">>
MASTER_DARK == <<"m","a","s","t","e","r","_","d","a","r","k">>
MASTER_FLAT == <<"m","a","s","t","e","r","_","f","l","a","t">>
DOT_FITS == <<".","f","i","t","s">>
Digits == <<"1","2","3","4","5","6","7","8","9">>

\* Binning descriptors, str(XBINNING) + "x" + str(YBINNING).
BIN1 == <<"1","x","1">>
BIN2 == <<"2","x","2">>
Binnings == {BIN1, BIN2}

\* Filter names as found in the FILTER header keyword.
FLT_I == <<"I">>
FLT_OIII == <<"O","I","I","I">>
NOFILTER == <<>>
Filters == {FLT_I, FLT_OIII}

FrameTypes == {MASTER_BIAS, MASTER_DARK, MASTER_FLAT}

\* Python's  req in filename  on strings.
Contains(req, s) ==
    \E i \in 0 .. (Len(s) - Len(req)) : SubSeq(s, i + 1, i + Len(req)) = req

Abs(n) == IF n < 0 THEN 0 - n ELSE n

(***************************************************************************)
(* Numbers, dates and delimited text.                                      *)
(***************************************************************************)
DecDigits == <<"0","1","2","3","4","5","6","7","8","9">>

IsDigit(c) == \E i \in 1 .. 10 : DecDigits[i] = c
DigitVal(c) == (CHOOSE i \in 1 .. 10 : DecDigits[i] = c) - 1

\* str() of an integer.
RECURSIVE NatStr(_)
NatStr(n) ==
    IF n < 10 THEN <<DecDigits[n + 1]>>
    ELSE NatStr(n \div 10) \o <<DecDigits[(n % 10) + 1]>>

IntStr(n) == IF n < 0 THEN <<"-">> \o NatStr(0 - n) ELSE NatStr(n)

\* int() of a text: an optional sign followed by digits, else ValueError.
IsNatText(s) == Len(s) > 0 /\ \A i \in 1 .. Len(s) : IsDigit(s[i])

RECURSIVE NatVal(_)
NatVal(s) ==
    IF Len(s) = 0 THEN 0
    ELSE 10 * NatVal(SubSeq(s, 1, Len(s) - 1)) + DigitVal(s[Len(s)])

IsIntText(s) ==
    \/ IsNatText(s)
    \/ Len(s) > 1 /\ s[1] \in {"-", "+"} /\ IsNatText(Tail(s))

IntVal(s) ==
    IF s[1] = "-" THEN 0 - NatVal(Tail(s))
    ELSE IF s[1] = "+" THEN NatVal(Tail(s))
    ELSE NatVal(s)

\* The built-in max of three integers.
Max3(a, b, c) ==
    IF a >= b /\ a >= c THEN a ELSE IF b >= c THEN b ELSE c

\* Zero-padded decimal text of width w.
RECURSIVE Pad(_, _)
Pad(n, w) ==
    IF w = 0 THEN <<>> ELSE Pad(n \div 10, w - 1) \o <<DecDigits[(n % 10) + 1]>>

\* A calendar date is <<year, month, day>>; night 0 is the 15th of March
\* 2020 and the nights of the model stay inside that month.
DateOfNight(n) == <<2020, 3, 15 + n>>
NightOfDate(date) == date[3] - 15
DateLess(a, b) ==
    \/ a[1] < b[1]
    \/ a[1] = b[1] /\ a[2] < b[2]
    \/ a[1] = b[1] /\ a[2] = b[2] /\ a[3] < b[3]

\* folder_datetime + timedelta(days=k)
PlusDays(date, k) == <<date[1], date[2], date[3] + k>>

\* str(date): YYYY-MM-DD.
isoformat(date) ==
    Pad(date[1], 4) \o <<"-">> \o Pad(date[2], 2) \o <<"-">> \o Pad(date[3], 2)

\* date.strftime('%y%m%d'): the name of a night's folder.
strftime_ymd(date) == Pad(date[1] % 100, 2) \o Pad(date[2], 2) \o Pad(date[3], 2)

\* datetime.strptime(s, '%y%m%d')
strptime_ymd(s) ==
    IF Len(s) = 6 /\ IsNatText(s)
    THEN [st |-> "ok",
          date |-> <<2000 + NatVal(SubSeq(s, 1, 2)), NatVal(SubSeq(s, 3, 4)), NatVal(SubSeq(s, 5, 6))>>]
    ELSE [st |-> "ValueError", date |-> <<0, 0, 0>>]

\* datetime.strptime(s, "%d-%m-%Y"): a day of one or two digits, "-", a month
\* of one or two digits, "-", a year of four digits, and nothing else.
strptime_dmY(s) ==
    LET fits(a, b) ==
            /\ Len(s) = a + b + 6
            /\ IsNatText(SubSeq(s, 1, a)) /\ s[a + 1] = "-"
            /\ IsNatText(SubSeq(s, a + 2, a + 1 + b)) /\ s[a + b + 2] = "-"
            /\ IsNatText(SubSeq(s, a + b + 3, a + b + 6))
            /\ NatVal(SubSeq(s, 1, a)) \in 1 .. 31
            /\ NatVal(SubSeq(s, a + 2, a + 1 + b)) \in 1 .. 12
        W == {<<a, b>> : a \in 1 .. 2, b \in 1 .. 2}
    IN IF \E w \in W : fits(w[1], w[2])
       THEN LET w == CHOOSE x \in W : fits(x[1], x[2])
            IN [st |-> "ok",
                date |-> <<NatVal(SubSeq(s, w[1] + w[2] + 3, w[1] + w[2] + 6)),
                           NatVal(SubSeq(s, w[1] + 2, w[1] + 1 + w[2])),
                           NatVal(SubSeq(s, 1, w[1]))>>]
       ELSE [st |-> "ValueError", date |-> <<0, 0, 0>>]

\* sep.join(cells)
RECURSIVE Join(_, _)
Join(cells, sep) ==
    IF Len(cells) = 0 THEN <<>>
    ELSE IF Len(cells) = 1 THEN cells[1]
    ELSE cells[1] \o sep \o Join(Tail(cells), sep)

\* The fields csv.reader makes of a line for a one-character delimiter.
RECURSIVE Split(_, _)
Split(s, c) ==
    IF \A i \in 1 .. Len(s) : s[i] # c THEN <<s>>
    ELSE LET i == CHOOSE k \in 1 .. Len(s) : s[k] = c /\ \A j \in 1 .. (k - 1) : s[j] # c
         IN <<SubSeq(s, 1, i - 1)>> \o Split(SubSeq(s, i + 1, Len(s)), c)

\* str.strip()
RECURSIVE strip(_)
strip(s) ==
    IF Len(s) = 0 THEN s
    ELSE IF s[1] = " " THEN strip(Tail(s))
    ELSE IF s[Len(s)] = " " THEN strip(SubSeq(s, 1, Len(s) - 1))
    ELSE s

(***************************************************************************)
(* The calibration store: master frame files in calendar partitions.       *)
(***************************************************************************)
\* A master frame file: the partition it was saved in, and the frame type,
\* binning, filter and cluster index its file name was built from.
MasterKeys ==
    << [kind |-> MASTER_BIAS, binning |-> BIN1, fltr |-> NOFILTER, idx |-> 1],
       [kind |-> MASTER_DARK, binning |-> BIN1, fltr |-> NOFILTER, idx |-> 1],
       [kind |-> MASTER_FLAT, binning |-> BIN1, fltr |-> FLT_I,    idx |-> 1],
       [kind |-> MASTER_FLAT, binning |-> BIN1, fltr |-> FLT_I,    idx |-> 2],
       [kind |-> MASTER_FLAT, binning |-> BIN1, fltr |-> FLT_OIII, idx |-> 1],
       [kind |-> MASTER_DARK, binning |-> BIN1, fltr |-> NOFILTER, idx |-> 2] >>

KeySet == {MasterKeys[i] : i \in 1 .. Len(MasterKeys)}

MasterFiles ==
    {[day |-> d, kind |-> k.kind, binning |-> k.binning, fltr |-> k.fltr, idx |-> k.idx] :
        d \in Days, k \in KeySet}

NoFile == [day |-> 0, kind |-> <<>>, binning |-> <<>>, fltr |-> <<>>, idx |-> 0]

\* File name given to a master frame when it is saved.
MasterName(f) ==
    IF f.kind = MASTER_FLAT
    THEN f.kind \o f.binning \o f.fltr \o <<"C">> \o <<Digits[f.idx]>> \o DOT_FITS
    ELSE f.kind \o f.binning \o <<"C">> \o <<Digits[f.idx]>> \o DOT_FITS

\* DATE-OBS of a master frame: the header of the last exposure of its
\* cluster; clusters of a night are indexed in chronological order.
DateObs(f) == f.day * TicksPerDay + (f.idx - 1)

\* os.listdir gives the names of a directory in an arbitrary order that is
\* fixed by the file system: ascending or descending rank of the name.
\* The names a correction run of the observed night can add to them.
ListedKeys ==
    MasterKeys \o
    << [kind |-> MASTER_BIAS, binning |-> BIN2, fltr |-> NOFILTER, idx |-> 1],
       [kind |-> MASTER_DARK, binning |-> BIN2, fltr |-> NOFILTER, idx |-> 1],
       [kind |-> MASTER_FLAT, binning |-> BIN2, fltr |-> FLT_I,    idx |-> 1] >>

Rank(f) ==
    CHOOSE i \in 1 .. Len(ListedKeys) :
        ListedKeys[i] = [kind |-> f.kind, binning |-> f.binning, fltr |-> f.fltr, idx |-> f.idx]

RECURSIVE SortByRank(_, _)
SortByRank(S, rev) ==
    IF S = {} THEN <<>>
    ELSE LET f == CHOOSE x \in S : \A y \in S :
                    IF rev THEN Rank(x) >= Rank(y) ELSE Rank(x) <= Rank(y)
         IN <<f>> \o SortByRank(S \ {f}, rev)

listdir(st, rev, day) == SortByRank({f \in st : f.day = day}, rev)

(***************************************************************************)
(* get_closest_master: the calibration resolver.                           *)
(***************************************************************************)
\* requirements = [frame_type, binning, fltr];  all(req in filename ...)
SatisfiesRequirements(filename, frame_type, binning, fltr) ==
    /\ Contains(frame_type, filename)
    /\ Contains(binning, filename)
    /\ Contains(fltr, filename)

\* The entries appended to potential_files for one directory, in listing
\* order, each with the relative age recorded for that directory.
Potentials(st, rev, day, off, frame_type, binning, fltr) ==
    LET names == listdir(st, rev, day)
        ok(f) == SatisfiesRequirements(MasterName(f), frame_type, binning, fltr)
        hits == SelectSeq(names, ok)
    IN [i \in 1 .. Len(hits) |-> [file |-> hits[i], off |-> off]]

\* Faulty variants of PotentialsAtRadius: the past directory is not examined;
\* the past directory is recorded with an unsigned age.
PotentialsAtRadius_FutureOnly(st, rev, night, days_off, frame_type, binning, fltr) ==
    Potentials(st, rev, night + days_off, days_off, frame_type, binning, fltr)

PotentialsAtRadius_Unsigned(st, rev, night, days_off, frame_type, binning, fltr) ==
    Potentials(st, rev, night + days_off, days_off, frame_type, binning, fltr)
        \o Potentials(st, rev, night - days_off, days_off, frame_type, binning, fltr)

\* The two directories examined at one radius: future first, then past.
PotentialsAtRadius(st, rev, night, days_off, frame_type, binning, fltr) ==
    Potentials(st, rev, night + days_off, days_off, frame_type, binning, fltr)
        \o Potentials(st, rev, night - days_off, 0 - days_off, frame_type, binning, fltr)

\* The check made after days_off has been increased.
HorizonExceeded(days_off, max_days_off) == days_off > max_days_off

\* Faulty variant of Closest: the first entry is taken whatever its key.
Closest_First(potential_files, target) == potential_files[1]

\* min(potential_files, key=lambda file: abs(file[1] - target_datetime)):
\* the first entry of the list with the smallest key.
Closest(potential_files, target) ==
    LET key(i) == Abs(DateObs(potential_files[i].file) - target)
        i0 == CHOOSE i \in 1 .. Len(potential_files) :
                /\ \A j \in 1 .. Len(potential_files) : key(i) <= key(j)
                /\ \A j \in 1 .. (i - 1) : key(j) > key(i)
    IN potential_files[i0]

Returned(entry) == [st |-> "ok", file |-> entry.file, off |-> entry.off]
Raised(err) == [st |-> err, file |-> NoFile, off |-> 0]

\* The while loop over days_off.
RECURSIVE SearchNearby(_, _, _, _, _, _, _, _, _)
SearchNearby(st, rev, target, night, max_days_off, binning, frame_type, fltr, days_off) ==
    LET found == PotentialsAtRadius(st, rev, night, days_off, frame_type, binning, fltr)
    IN IF HorizonExceeded(days_off + 1, max_days_off)
       THEN Raised("SuitableMasterMissingError")
       ELSE IF Len(found) = 0
            THEN IF \A f \in st : Abs(f.day - night) <= days_off
                 THEN \* No partition further away exists: every later
                      \* iteration finds nothing, and the loop ends when
                      \* days_off passes max_days_off.
                      Raised("SuitableMasterMissingError")
                 ELSE SearchNearby(st, rev, target, night, max_days_off, binning,
                                   frame_type, fltr, days_off + 1)
            ELSE Returned(Closest(found, target))

get_closest_master(st, dirs, rev, target, night, max_days_off, binning, frame_type, fltr) ==
    IF night \notin dirs
    THEN Raised("FileNotFoundError")
    ELSE LET here == Potentials(st, rev, night, 0, frame_type, binning, fltr)
         IN IF Len(here) > 0
            THEN Returned(Closest(here, target))
            ELSE SearchNearby(st, rev, target, night, max_days_off, binning,
                              frame_type, fltr, 1)

\* The number of passes of the while loop, which is the number of radii whose
\* partitions are examined: a pass examines radius days_off, adds one to
\* days_off and only then compares it with max_days_off.
RECURSIVE loop_passes(_, _, _, _, _, _, _, _)
loop_passes(st, rev, night, max_days_off, binning, frame_type, fltr, days_off) ==
    IF HorizonExceeded(days_off + 1, max_days_off)
    THEN days_off
    ELSE IF Len(PotentialsAtRadius(st, rev, night, days_off, frame_type, binning, fltr)) = 0
         THEN loop_passes(st, rev, night, max_days_off, binning, frame_type, fltr,
                          days_off + 1)
         ELSE days_off

\* The radii a call examines: none when the night's partition holds a match.
radii_examined(st, dirs, rev, night, max_days_off, binning, frame_type, fltr) ==
    IF night \notin dirs \/ Len(Potentials(st, rev, night, 0, frame_type, binning, fltr)) > 0
    THEN 0
    ELSE loop_passes(st, rev, night, max_days_off, binning, frame_type, fltr, 1)

(***************************************************************************)
(* Light exposures.                                                        *)
(***************************************************************************)
\* The light files of the observed night: the header keywords BINNING and
\* FILTER, and the DATE-OBS tick within the night.
LightFiles ==
    { [night |-> 0, name |-> <<"a",".","f","i","t","s">>,
       binning |-> BIN1, fltr |-> FLT_I, tick |-> 0],
      [night |-> 0, name |-> <<"b",".","f","i","t","s">>,
       binning |-> BIN2, fltr |-> FLT_I, tick |-> 1] }

\* A light file lies in the folder named after its night.
LightPath(l) == strftime_ymd(DateOfNight(l.night)) \o <<"/">> \o l.name
LightPaths == {LightPath(l) : l \in LightFiles}

\* get_file_info(light_file, ["BINNING", "FILTER", "EXPTIME", "DATE-OBS"])
get_file_info(light_file) == CHOOSE l \in LightFiles : LightPath(l) = light_file

\* datetime.strptime(working_dir...split(os.sep)[1], '%y%m%d')
folder_datetime(light_file) == strptime_ymd(SubSeq(light_file, 1, 6)).date

(***************************************************************************)
(* The pending log: a text file of comma-separated lines.                  *)
(***************************************************************************)
clmns ==
    << <<"D","a","t","e">>,
       <<"F","r","a","m","e"," ","t","y","p","e">>,
       <<"B","i","n","n","i","n","g">>,
       <<"F","i","l","t","e","r">>,
       <<"B","I","A","S","-","A","G","E">>,
       <<"D","A","R","K","-","A","G","E">>,
       <<"F","L","A","T","-","A","G","E">>,
       <<"E","x","p","i","r","e","s">>,
       <<"P","a","t","h">> >>

LIGHT_FILE == <<"L","i","g","h","t"," ","f","i","l","e">>
QMARK == <<"?">>
DASH == <<"-">>
COMMA_SP == <<",", " ">>
COMMA == <<",">>

\* np.savetxt(f, row.reshape(1, n), delimiter=delimiter, fmt="%s")
savetxt(row, delimiter) == Join(row, delimiter)

\* Faulty variant of append_pending_log: a line the file already holds is
\* not written again.
append_pending_log_Dedup(led, new_line) ==
    IF led.exists /\ \E i \in 1 .. Len(led.lines) : led.lines[i] = savetxt(new_line, COMMA_SP)
    THEN led
    ELSE [exists |-> TRUE,
          lines |-> Append(IF led.exists THEN led.lines ELSE <<savetxt(clmns, COMMA_SP)>>,
                           savetxt(new_line, COMMA_SP))]

\* Faulty variant of append_pending_log: the header is written before every
\* line, also when the file exists.
append_pending_log_Header(led, new_line) ==
    [exists |-> TRUE,
     lines |-> (IF led.exists THEN led.lines ELSE <<>>)
                  \o <<savetxt(clmns, COMMA_SP), savetxt(new_line, COMMA_SP)>>]

\* The file is created with the header when it does not exist; the new line
\* is appended.
append_pending_log(led, new_line) ==
    LET created == IF led.exists THEN led.lines ELSE <<savetxt(clmns, COMMA_SP)>>
    IN [exists |-> TRUE, lines |-> Append(created, savetxt(new_line, COMMA_SP))]

\* csv.reader(f, delimiter=","): every line of the file, header included.
read_pending_log(led) == [i \in 1 .. Len(led.lines) |-> Split(led.lines[i], ",")]

\* Faulty variant of rewrite_header: every line read is written back.
rewrite_header_KeepAll(lines) ==
    [exists |-> TRUE, lines |-> [i \in 1 .. Len(lines) |-> savetxt(lines[i], COMMA)]]

\* open(pd_log, "wb"); np.savetxt(f, lines[0]..., delimiter=",")
rewrite_header(lines) == [exists |-> TRUE, lines |-> <<savetxt(lines[1], COMMA)>>]

(***************************************************************************)
(* reduce_img: the reduction of one light file.                            *)
(***************************************************************************)
\* The try block: master bias, master dark, master flat, in that order; the
\* first exception leaves the block.
masters_found(b, d, f) ==
    IF b.st # "ok" THEN [st |-> b.st, offs |-> <<0, 0, 0>>]
    ELSE IF d.st # "ok" THEN [st |-> d.st, offs |-> <<0, 0, 0>>]
    ELSE IF f.st # "ok" THEN [st |-> f.st, offs |-> <<0, 0, 0>>]
    ELSE [st |-> "ok", offs |-> <<b.off, d.off, f.off>>]

\* DATE-OBS of a light file, in ticks.
creation_datetime(light) == light.night * TicksPerDay + light.tick

closest_masters(st, dirs, rev, light, night, max_days_off) ==
    masters_found(
        get_closest_master(st, dirs, rev, creation_datetime(light), night, max_days_off,
                           light.binning, MASTER_BIAS, NOFILTER),
        get_closest_master(st, dirs, rev, creation_datetime(light), night, max_days_off,
                           light.binning, MASTER_DARK, NOFILTER),
        get_closest_master(st, dirs, rev, creation_datetime(light), night, max_days_off,
                           light.binning, MASTER_FLAT, light.fltr))

\* Faulty variant of failed_line: the ages of a failed reduction are zeros.
failed_line_Zeros(date, light, light_file) ==
    <<isoformat(date), LIGHT_FILE, light.binning, light.fltr,
      IntStr(0), IntStr(0), IntStr(0), DASH, light_file>>

\* new_line of the except block.
failed_line(date, light, light_file) ==
    <<isoformat(date), LIGHT_FILE, light.binning, light.fltr,
      QMARK, QMARK, QMARK, DASH, light_file>>

\* max_off = abs(max(bias_off, dark_off, flat_off))
max_off(offs) == Abs(Max3(offs[1], offs[2], offs[3]))

\* Faulty variant of NeedsPending: every reduction is logged.
NeedsPending_Always(m) == TRUE

\* if max_off > 0
NeedsPending(m) == m > 0

\* new_line of a reduction with aged master frames.
aged_line(date, light, light_file, offs) ==
    <<isoformat(date), LIGHT_FILE, light.binning, light.fltr,
      IntStr(offs[1]), IntStr(offs[2]), IntStr(offs[3]),
      isoformat(PlusDays(date, max_off(offs))), light_file>>

\* save_fits(savepath, ...): the reduced image of a light file, with the ages
\* of its master frames in the header, replaces an earlier one.
save_reduced(red, light_file, offs) ==
    {r \in red : r.path # light_file} \cup {[path |-> light_file, offs |-> offs]}

\* Reduction.reduce_img of BlaauwPipe after the try block, r being what the
\* block gave.  The outcome is "failed" (updateFailed and return), "done"
\* (updateDone and return), or the exception that leaves the function: the
\* message of a reduction with aged master frames names  days_off , which is
\* not defined.
Reduction_outcome(led, red, light_file, light, date, r) ==
    IF r.st = "SuitableMasterMissingError"
    THEN [st |-> "failed", offs |-> r.offs, reduced |-> red,
          ledger |-> append_pending_log(led, failed_line(date, light, light_file))]
    ELSE IF r.st # "ok"
    THEN [st |-> r.st, offs |-> r.offs, reduced |-> red, ledger |-> led]
    ELSE IF NeedsPending(max_off(r.offs))
    THEN [st |-> "NameError", offs |-> r.offs,
          reduced |-> save_reduced(red, light_file, r.offs),
          ledger |-> append_pending_log(led, aged_line(date, light, light_file, r.offs))]
    ELSE [st |-> "done", offs |-> r.offs, ledger |-> led,
          reduced |-> save_reduced(red, light_file, r.offs)]

Reduction_reduce_img(st, dirs, rev, led, red, light_file, max_days_off) ==
    Reduction_outcome(led, red, light_file, get_file_info(light_file),
                      folder_datetime(light_file),
                      closest_masters(st, dirs, rev, get_file_info(light_file),
                                      NightOfDate(folder_datetime(light_file)),
                                      max_days_off))

\* reduce_img of the controller (fits_utils_ct), called by the retry pass:
\* after the three master frames are found, red_dir is not defined.
outcome_ct(led, red, light_file, light, date, r) ==
    IF r.st = "SuitableMasterMissingError"
    THEN [st |-> "failed", offs |-> r.offs, reduced |-> red,
          ledger |-> append_pending_log(led, failed_line(date, light, light_file))]
    ELSE IF r.st # "ok"
    THEN [st |-> r.st, offs |-> r.offs, reduced |-> red, ledger |-> led]
    ELSE [st |-> "NameError", offs |-> r.offs, reduced |-> red, ledger |-> led]

reduce_img_ct(st, dirs, rev, led, red, light_file, max_days_off) ==
    outcome_ct(led, red, light_file, get_file_info(light_file),
               folder_datetime(light_file),
               closest_masters(st, dirs, rev, get_file_info(light_file),
                               NightOfDate(folder_datetime(light_file)),
                               max_days_off))

(***************************************************************************)
(* The master frame builder: master darks and master flats of a night.     *)
(***************************************************************************)
DARK_FILE == <<"D","a","r","k"," ","f","i","l","e">>
FLAT_FILE == <<"F","l","a","t"," ","f","i","l","e">>
CORRECTION == <<"C","o","r","r","e","c","t","i","o","n">>

Max2(a, b) == IF a >= b THEN a ELSE b

\* str.replace(old, ""): the occurrences of old, left to right, are taken out.
RECURSIVE Remove(_, _)
Remove(s, old) ==
    IF Len(old) = 0 \/ Len(s) < Len(old) THEN s
    ELSE IF SubSeq(s, 1, Len(old)) = old
    THEN Remove(SubSeq(s, Len(old) + 1, Len(s)), old)
    ELSE <<s[1]>> \o Remove(Tail(s), old)

\* os.path.split(path): what precedes the last separator, and what follows it.
basename(path) == LET parts == Split(path, "/") IN parts[Len(parts)]
dirname(path) ==
    LET parts == Split(path, "/") IN Join(SubSeq(parts, 1, Len(parts) - 1), <<"/">>)

\* filename.split(".")[0]
stem(filename) == Split(filename, ".")[1]

\* The dark and flat exposures of the observed night, by cluster: the header
\* keywords of the last exposure of the cluster (BINNING, FILTER, the
\* DATE-OBS tick) and the path of its first exposure.
DarkClusters ==
    << [binning |-> BIN1, fltr |-> FLT_I, tick |-> 0,
        first |-> strftime_ymd(DateOfNight(0)) \o <<"/","d","1",".","f","i","t","s">>],
       [binning |-> BIN1, fltr |-> FLT_I, tick |-> 1,
        first |-> strftime_ymd(DateOfNight(0)) \o <<"/","d","2",".","f","i","t","s">>] >>

FlatClusters ==
    << [binning |-> BIN1, fltr |-> FLT_I, tick |-> 0,
        first |-> strftime_ymd(DateOfNight(0)) \o <<"/","f","1",".","f","i","t","s">>] >>

\* plp.get_dark_clusters(binning), plp.get_flat_clusters(binning, fltr)
get_dark_clusters(binning) ==
    SelectSeq(DarkClusters, LAMBDA c : c.binning = binning)
get_flat_clusters(binning, fltr) ==
    SelectSeq(FlatClusters, LAMBDA c : c.binning = binning /\ c.fltr = fltr)

\* plp.cor_dir and os.path.join(plp.cor_dir, filename)
cor_dir(night) == strftime_ymd(DateOfNight(night)) \o <<"/">> \o CORRECTION
savepath(night, f) == cor_dir(night) \o <<"/">> \o MasterName(f)

\* Faulty variant of mdark_file: every cluster is saved under the name of the
\* first one.
mdark_file_First(night, cl, index) ==
    [day |-> night, kind |-> MASTER_DARK, binning |-> cl.binning, fltr |-> NOFILTER,
     idx |-> 1]

mdark_file(night, cl, index) ==
    [day |-> night, kind |-> MASTER_DARK, binning |-> cl.binning, fltr |-> NOFILTER,
     idx |-> index + 1]
mflat_file(night, cl, fltr, index) ==
    [day |-> night, kind |-> MASTER_FLAT, binning |-> cl.binning, fltr |-> fltr,
     idx |-> index + 1]

\* What a master frame file made by the builder holds: the master frames
\* its data were corrected with, which header_add_mbias and header_add_mdark
\* also write into its header.
mdark_header(f, b) == [file |-> f, mbias |-> b.file, mdark |-> NoFile]
mflat_header(f, r) == [file |-> f, mbias |-> r.files[1], mdark |-> r.files[2]]

\* save_fits(savepath, data=..., header=...) of a master frame build that
\* got as far as saving: the file of that name is replaced.
save_headers(hdrs, out) ==
    IF out.st = "done"
    THEN {h \in hdrs : h.file # out.written.file} \cup {out.written}
    ELSE hdrs

\* new_line of the except block of create_mdark.
failed_dark_line(night, cl) ==
    <<isoformat(DateOfNight(night)), DARK_FILE, cl.binning, cl.fltr,
      QMARK, DASH, DASH, DASH, cl.first>>

\* Faulty variant of aged_dark_line: the age is written without its sign.
aged_dark_line_Abs(night, binning, fltr, bias_off, path) ==
    <<isoformat(DateOfNight(night)), DARK_FILE, binning, fltr,
      IntStr(Abs(bias_off)), DASH, DASH,
      isoformat(PlusDays(DateOfNight(night), Abs(bias_off))), path>>

\* new_line of a master dark made with an aged master bias.
aged_dark_line(night, binning, fltr, bias_off, path) ==
    <<isoformat(DateOfNight(night)), DARK_FILE, binning, fltr,
      IntStr(bias_off), DASH, DASH,
      isoformat(PlusDays(DateOfNight(night), Abs(bias_off))), path>>

\* Faulty variant of mdark_outcome: the exception of the resolver is not
\* caught.
mdark_outcome_Uncaught(stor, led, night, cl, index, b) ==
    IF b.st # "ok"
    THEN [st |-> b.st, off |-> 0, store |-> stor, ledger |-> led]
    ELSE [st |-> "done", off |-> b.off,
          written |-> mdark_header(mdark_file(night, cl, index), b),
          store |-> stor \cup {mdark_file(night, cl, index)},
          ledger |-> IF Abs(b.off) > 0
                     THEN append_pending_log(led,
                              aged_dark_line(night, cl.binning, cl.fltr, b.off,
                                             savepath(night, mdark_file(night, cl, index))))
                     ELSE led]

\* Correction.create_mdark after the resolution b of the master bias.
mdark_outcome(stor, led, night, cl, index, b) ==
    IF b.st = "SuitableMasterMissingError"
    THEN [st |-> "failed", off |-> 0, store |-> stor,
          ledger |-> append_pending_log(led, failed_dark_line(night, cl))]
    ELSE IF b.st # "ok"
    THEN [st |-> b.st, off |-> 0, store |-> stor, ledger |-> led]
    ELSE [st |-> "done", off |-> b.off,
          written |-> mdark_header(mdark_file(night, cl, index), b),
          store |-> stor \cup {mdark_file(night, cl, index)},
          ledger |-> IF Abs(b.off) > 0
                     THEN append_pending_log(led,
                              aged_dark_line(night, cl.binning, cl.fltr, b.off,
                                             savepath(night, mdark_file(night, cl, index))))
                     ELSE led]

Correction_create_mdark(stor, dirs, rev, led, night, cl, index, max_days_off) ==
    mdark_outcome(stor, led, night, cl, index,
                  get_closest_master(stor, dirs, rev, night * TicksPerDay + cl.tick, night,
                                     max_days_off, cl.binning, MASTER_BIAS, NOFILTER))

\* The try block of create_mflat: master bias, then master dark.
flat_masters_found(b, d) ==
    IF b.st # "ok" THEN [st |-> b.st, offs |-> <<0, 0>>]
    ELSE IF d.st # "ok" THEN [st |-> d.st, offs |-> <<0, 0>>]
    ELSE [st |-> "ok", offs |-> <<b.off, d.off>>, files |-> <<b.file, d.file>>]

\* new_line of the except block of create_mflat.
failed_flat_line(night, cl) ==
    <<isoformat(DateOfNight(night)), FLAT_FILE, cl.binning, cl.fltr,
      QMARK, QMARK, DASH, DASH, cl.first>>

\* max_off = abs(max(bias_off, dark_off))
flat_max_off(offs) == Abs(Max2(offs[1], offs[2]))

\* new_line of a master flat made with aged master frames.
aged_flat_line(night, binning, fltr, offs, path) ==
    <<isoformat(DateOfNight(night)), FLAT_FILE, binning, fltr,
      IntStr(offs[1]), IntStr(offs[2]), DASH,
      isoformat(PlusDays(DateOfNight(night), flat_max_off(offs))), path>>

\* Correction.create_mflat after the try block, r being what the block gave.
mflat_outcome(stor, led, night, cl, index, r) ==
    IF r.st = "SuitableMasterMissingError"
    THEN [st |-> "failed", offs |-> r.offs, store |-> stor,
          ledger |-> append_pending_log(led, failed_flat_line(night, cl))]
    ELSE IF r.st # "ok"
    THEN [st |-> r.st, offs |-> r.offs, store |-> stor, ledger |-> led]
    ELSE [st |-> "done", offs |-> r.offs,
          written |-> mflat_header(mflat_file(night, cl, cl.fltr, index), r),
          store |-> stor \cup {mflat_file(night, cl, cl.fltr, index)},
          ledger |-> IF flat_max_off(r.offs) > 0
                     THEN append_pending_log(led,
                              aged_flat_line(night, cl.binning, cl.fltr, r.offs,
                                  savepath(night, mflat_file(night, cl, cl.fltr, index))))
                     ELSE led]

Correction_create_mflat(stor, dirs, rev, led, night, cl, index, max_days_off) ==
    mflat_outcome(stor, led, night, cl, index,
        flat_masters_found(
            get_closest_master(stor, dirs, rev, night * TicksPerDay + cl.tick, night,
                               max_days_off, cl.binning, MASTER_BIAS, NOFILTER),
            get_closest_master(stor, dirs, rev, night * TicksPerDay + cl.tick, night,
                               max_days_off, cl.binning, MASTER_DARK, NOFILTER)))

(***************************************************************************)
(* recreate_mdark, recreate_mflat: a master frame is made again from an    *)
(* entry of the pending log (controller).                                  *)
(***************************************************************************)
\* int(cluster.replace("C", "")) - 1
cluster_index(text) ==
    IF IsIntText(Remove(text, <<"C">>))
    THEN [st |-> "ok", cluster |-> IntVal(Remove(text, <<"C">>)) - 1]
    ELSE [st |-> "ValueError", cluster |-> 0]

\* recreate_mdark: filename.replace("master_dark", "").replace(binning, "")
mdark_cluster(file_path, binning) ==
    cluster_index(Remove(Remove(stem(basename(file_path)), MASTER_DARK), binning))

\* recreate_mflat: filename.replace("master_dark", "").replace(binning, "")
\*                 .replace(fltr, "")
mflat_cluster(file_path, binning, fltr) ==
    cluster_index(Remove(Remove(Remove(stem(basename(file_path)), MASTER_DARK), binning), fltr))

\* clusters[cluster] of a Python list: the position counted from the end
\* when the index is negative.
list_index(clusters, cluster) ==
    IF cluster >= 0 /\ cluster < Len(clusters) THEN cluster + 1
    ELSE IF cluster < 0 /\ 0 - cluster <= Len(clusters) THEN Len(clusters) + cluster + 1
    ELSE 0

\* get_master_dark(obs, binning, working_dir, cluster=cluster) and the rest
\* of recreate_mdark, b being the resolution of the master bias: the except
\* block of get_master_dark names  creation_datetime , which is not defined.
recreate_mdark_outcome(stor, led, file_path, night, cl, cluster, fltr, b) ==
    IF b.st = "SuitableMasterMissingError"
    THEN [st |-> "NameError", cluster |-> cluster, store |-> stor, ledger |-> led]
    ELSE IF b.st # "ok"
    THEN [st |-> b.st, cluster |-> cluster, store |-> stor, ledger |-> led]
    ELSE [st |-> "done", cluster |-> cluster,
          written |-> mdark_header(mdark_file(night, cl, cluster), b),
          store |-> stor \cup {mdark_file(night, cl, cluster)},
          ledger |-> IF Abs(b.off) > 0
                     THEN append_pending_log(led,
                              aged_dark_line(night, cl.binning, fltr, b.off,
                                  dirname(file_path) \o <<"/">>
                                      \o MasterName(mdark_file(night, cl, cluster))))
                     ELSE led]

recreate_mdark_cluster(stor, dirs, rev, led, file_path, night, clusters, cluster, fltr) ==
    IF Len(clusters) = 0
    THEN \* return [], []  unpacked into four names
         [st |-> "ValueError", cluster |-> cluster, store |-> stor, ledger |-> led]
    ELSE IF list_index(clusters, cluster) = 0
    THEN [st |-> "IndexError", cluster |-> cluster, store |-> stor, ledger |-> led]
    ELSE recreate_mdark_outcome(stor, led, file_path, night,
             clusters[list_index(clusters, cluster)], cluster, fltr,
             get_closest_master(stor, dirs, rev,
                 night * TicksPerDay + clusters[list_index(clusters, cluster)].tick,
                 night, 365, clusters[list_index(clusters, cluster)].binning,
                 MASTER_BIAS, NOFILTER))

recreate_mdark(stor, dirs, rev, led, file_path, binning, fltr) ==
    IF mdark_cluster(file_path, binning).st # "ok"
    THEN [st |-> "ValueError", cluster |-> 0, store |-> stor, ledger |-> led]
    ELSE recreate_mdark_cluster(stor, dirs, rev, led, file_path,
                                NightOfDate(folder_datetime(file_path)),
                                get_dark_clusters(binning),
                                mdark_cluster(file_path, binning).cluster, fltr)

\* get_master_flat(obs, binning, fltr, working_dir, cluster=cluster) and the
\* rest of recreate_mflat, r being what the try block gave: the except block
\* of get_master_flat names  creation_datetime , which is not defined.
recreate_mflat_outcome(stor, led, file_path, night, cl, cluster, fltr, r) ==
    IF r.st = "SuitableMasterMissingError"
    THEN [st |-> "NameError", cluster |-> cluster, store |-> stor, ledger |-> led]
    ELSE IF r.st # "ok"
    THEN [st |-> r.st, cluster |-> cluster, store |-> stor, ledger |-> led]
    ELSE [st |-> "done", cluster |-> cluster,
          written |-> mflat_header(mflat_file(night, cl, fltr, cluster), r),
          store |-> stor \cup {mflat_file(night, cl, fltr, cluster)},
          ledger |-> IF flat_max_off(r.offs) > 0
                     THEN append_pending_log(led,
                              aged_flat_line(night, cl.binning, fltr, r.offs,
                                  dirname(file_path) \o <<"/">>
                                      \o MasterName(mflat_file(night, cl, fltr, cluster))))
                     ELSE led]

recreate_mflat_cluster(stor, dirs, rev, led, file_path, night, clusters, cluster, fltr) ==
    IF Len(clusters) = 0
    THEN \* return [], []  unpacked into six names
         [st |-> "ValueError", cluster |-> cluster, store |-> stor, ledger |-> led]
    ELSE IF list_index(clusters, cluster) = 0
    THEN [st |-> "IndexError", cluster |-> cluster, store |-> stor, ledger |-> led]
    ELSE recreate_mflat_outcome(stor, led, file_path, night,
             clusters[list_index(clusters, cluster)], cluster, fltr,
             flat_masters_found(
                 get_closest_master(stor, dirs, rev,
                     night * TicksPerDay + clusters[list_index(clusters, cluster)].tick,
                     night, 365, clusters[list_index(clusters, cluster)].binning,
                     MASTER_BIAS, NOFILTER),
                 get_closest_master(stor, dirs, rev,
                     night * TicksPerDay + clusters[list_index(clusters, cluster)].tick,
                     night, 365, clusters[list_index(clusters, cluster)].binning,
                     MASTER_DARK, NOFILTER)))

recreate_mflat(stor, dirs, rev, led, file_path, binning, fltr) ==
    IF mflat_cluster(file_path, binning, fltr).st # "ok"
    THEN [st |-> "ValueError", cluster |-> 0, store |-> stor, ledger |-> led]
    ELSE recreate_mflat_cluster(stor, dirs, rev, led, file_path,
                                NightOfDate(folder_datetime(file_path)),
                                get_flat_clusters(binning, fltr),
                                mflat_cluster(file_path, binning, fltr).cluster, fltr)

(***************************************************************************)
(* State.                                                                  *)
(*   store     master frame files present in the calibration store         *)
(*   cor_dirs  nights whose Correction directory exists                    *)
(*   lsrev     listing order of the file system                            *)
(*   ledger    content of the pending log file, NoLedger when it is absent *)
(*   reduced   reduced images written to the Reduced directories           *)
(*   last      the last call made and what it returned or raised           *)
(*   pass      progress of a retry pass over the pending log               *)
(*   obs       the Observation object of the night: its exposures and the  *)
(*             master frames it keeps                                      *)
(*   run       progress of BlaauwPipe.start over its targets               *)
(*   headers   what each master frame file made by the builder was made    *)
(*             from, as its header and its data hold it                    *)
(***************************************************************************)
NoLedger == [exists |-> FALSE, lines |-> <<>>]
NoCall == [op |-> "none"]
NoPass == [pc |-> "idle"]
NoObs == [made |-> FALSE]
NoRun == [pc |-> "idle", err |-> "none", calls |-> <<>>, made |-> <<>>]

Init ==
    /\ store = {}
    /\ cor_dirs = {}
    /\ lsrev \in BOOLEAN
    /\ ledger = NoLedger
    /\ reduced = {}
    /\ last = NoCall
    /\ pass = NoPass
    /\ obs = NoObs
    /\ run = NoRun
    /\ headers = {}

\* create_corrections: the Correction directory of a night is made before
\* any master frame of that night is saved.
mkdir_cor_dir(night) ==
    /\ pass.pc = "idle" /\ last = NoCall
    /\ night \notin cor_dirs
    /\ cor_dirs' = cor_dirs \cup {night}
    /\ UNCHANGED <<store, headers, lsrev, obs, run, ledger, reduced, last, pass>>

\* save_fits: a master frame is written to its partition, replacing a file
\* of the same name.  Master frames are made before the light exposures of
\* the run are reduced.
save_fits(f) ==
    /\ pass.pc = "idle" /\ last = NoCall
    /\ ledger = NoLedger /\ reduced = {}
    /\ f.day \in Nights => f.day \in cor_dirs
    /\ f \notin store
    /\ store' = store \cup {f}
    /\ UNCHANGED <<cor_dirs, lsrev, obs, run, ledger, reduced, last, pass, headers>>

\* The caller has taken the outcome of the last call and goes on.
Continue ==
    /\ pass.pc = "idle" /\ last # NoCall
    /\ last' = NoCall
    /\ UNCHANGED <<store, headers, cor_dirs, lsrev, obs, run, ledger, reduced, pass>>

(***************************************************************************)
(* Specification of the resolver alone: a store is built, then             *)
(* get_closest_master is applied to a request.                             *)
(***************************************************************************)
Requests ==
    {[target |-> n * TicksPerDay + t, night |-> n, max_days_off |-> m,
      binning |-> b, frame_type |-> k, fltr |-> fl] :
        n \in Nights, t \in Ticks, m \in 0 .. MaxHorizon, b \in Binnings,
        k \in FrameTypes, fl \in Filters \cup {NOFILTER}}

\* The callers pass a filter for master flats only.
WellFormed(rq) == (rq.frame_type = MASTER_FLAT) <=> (rq.fltr # NOFILTER)

\* Faulty variant of Resolve: the resolver itself writes the "?" entry of a
\* failed resolution to the pending log, as the except blocks of its
\* callers do.
Resolve_Logging(rq) ==
    /\ pass.pc = "idle" /\ last = NoCall
    /\ WellFormed(rq)
    /\ last' = [op |-> "get_closest_master", rq |-> rq,
                res |-> get_closest_master(store, cor_dirs, lsrev, rq.target, rq.night,
                                           rq.max_days_off, rq.binning, rq.frame_type, rq.fltr)]
    /\ ledger' = IF last'.res.st = "SuitableMasterMissingError"
                 THEN append_pending_log(ledger,
                          <<isoformat(DateOfNight(rq.night)), LIGHT_FILE, rq.binning,
                            rq.fltr, QMARK, QMARK, QMARK, DASH, DASH>>)
                 ELSE ledger
    /\ UNCHANGED <<store, headers, cor_dirs, lsrev, obs, run, reduced, pass>>

Resolve(rq) ==
    /\ pass.pc = "idle" /\ last = NoCall
    /\ WellFormed(rq)
    /\ last' = [op |-> "get_closest_master", rq |-> rq,
                res |-> get_closest_master(store, cor_dirs, lsrev, rq.target, rq.night,
                                           rq.max_days_off, rq.binning, rq.frame_type, rq.fltr)]
    /\ UNCHANGED <<store, headers, cor_dirs, lsrev, obs, run, ledger, reduced, pass>>

\* The store of the resolver specification: up to MaxStore bias and flat
\* frames; the requests ask for the frame types of that store.
ResolveFiles == {f \in MasterFiles : f.kind # MASTER_DARK}
ResolveRequests == {rq \in Requests : rq.frame_type # MASTER_DARK}

NextResolve ==
    \/ \E n \in Nights : mkdir_cor_dir(n)
    \/ \E f \in ResolveFiles : Cardinality(store) < MaxStore /\ save_fits(f)
    \/ \E rq \in ResolveRequests : Resolve(rq)

SpecResolve == Init /\ [][NextResolve]_vars

(***************************************************************************)
(* Claims about the resolver (checked under SpecResolve).                  *)
(***************************************************************************)
Resolved == last.op = "get_closest_master"

\* The master frames of partition  day  that meet the request's file-name
\* requirements.
MatchSet(rq, day) ==
    {f \in store : /\ f.day = day
                   /\ SatisfiesRequirements(MasterName(f), rq.frame_type, rq.binning, rq.fltr)}

TimeDiff(rq, f) == Abs(DateObs(f) - rq.target)

RadiusSet(rq, d) == MatchSet(rq, rq.night + d) \cup MatchSet(rq, rq.night - d)

\* C1: when the night's own partition holds no match and the resolver
\* returns, the frame comes from the smallest radius d >= 1 at which the
\* partition d days after or before the night holds a match, and no match of
\* either partition at that radius is closer in time to the target.
C1_SmallestRadiusPooled ==
    (Resolved /\ last.res.st = "ok" /\ MatchSet(last.rq, last.rq.night) = {}) =>
        LET rq == last.rq
            d == Abs(last.res.off)
        IN /\ d >= 1
           /\ last.res.file \in RadiusSet(rq, d)
           /\ \A r \in 1 .. (d - 1) : RadiusSet(rq, r) = {}
           /\ \A g \in RadiusSet(rq, d) : TimeDiff(rq, last.res.file) <= TimeDiff(rq, g)

\* Matches only at day -2 and day +1: the day +1 frame is returned, offset 1.
C1_Witness ==
    /\ Resolved /\ last.res.st = "ok"
    /\ MatchSet(last.rq, last.rq.night) = {}
    /\ MatchSet(last.rq, last.rq.night + 1) # {}
    /\ MatchSet(last.rq, last.rq.night - 1) = {}
    /\ MatchSet(last.rq, last.rq.night - 2) # {}
    /\ last.res.off = 1

\* C2: when the night's own partition holds a match, the resolver returns
\* the match of that partition closest in time to the target, with offset 0,
\* for every horizon.
C2_SameNightClosest ==
    (Resolved /\ MatchSet(last.rq, last.rq.night) # {}) =>
        /\ last.res.st = "ok"
        /\ last.res.off = 0
        /\ last.res.file \in MatchSet(last.rq, last.rq.night)
        /\ \A g \in MatchSet(last.rq, last.rq.night) :
              TimeDiff(last.rq, last.res.file) <= TimeDiff(last.rq, g)

\* Two matches in the night's partition, one in a neighbouring partition,
\* horizon 0.
C2_Witness ==
    /\ Resolved /\ last.rq.max_days_off = 0
    /\ Cardinality(MatchSet(last.rq, last.rq.night)) = 2
    /\ last.res.st = "ok" /\ last.res.off = 0
    /\ \E g \in MatchSet(last.rq, last.rq.night) :
          TimeDiff(last.rq, g) > TimeDiff(last.rq, last.res.file)

\* The day distance of the nearest partition holding a match, 0 - 1 if none.
Nearest(rq) ==
    IF \E d \in 0 .. (2 * MaxDay) : RadiusSet(rq, d) # {}
    THEN CHOOSE d \in 0 .. (2 * MaxDay) :
            /\ RadiusSet(rq, d) # {}
            /\ \A r \in 0 .. (d - 1) : RadiusSet(rq, r) = {}
    ELSE 0 - 1

\* C3: with horizon d the resolver raises SuitableMasterMissingError when the
\* nearest match is at day distance d + 1 and returns that frame when the
\* nearest match is at day distance exactly d.
C3_HorizonBoundary ==
    (Resolved /\ last.rq.night \in cor_dirs) =>
        /\ Nearest(last.rq) = last.rq.max_days_off + 1 =>
              last.res.st = "SuitableMasterMissingError"
        /\ Nearest(last.rq) = last.rq.max_days_off =>
              (last.res.st = "ok" /\ Abs(last.res.off) = last.rq.max_days_off)

\* C4: the offset returned is the signed day distance from the night to the
\* partition of the chosen frame: +d after, -d before, 0 for the night.
C4_SignedOffset ==
    (Resolved /\ last.res.st = "ok") =>
        last.res.file.day = last.rq.night + last.res.off

C4_Witness ==
    /\ Resolved /\ last.res.st = "ok"
    /\ last.res.off < 0
    /\ last.res.file.day < last.rq.night

\* C5: a returned frame has exactly the requested frame type and binning,
\* and for a master flat exactly the requested filter.
C5_ExactMatch ==
    (Resolved /\ last.res.st = "ok") =>
        /\ last.res.file.kind = last.rq.frame_type
        /\ last.res.file.binning = last.rq.binning
        /\ last.rq.frame_type = MASTER_FLAT => last.res.file.fltr = last.rq.fltr

(***************************************************************************)
(* Specification of the reduction engine: master frames are made, then     *)
(* light files are reduced.                                                *)
(***************************************************************************)
\* reduce_imgs: self.reduce_img(obs, plp, light_file, 365)
REDUCE_IMGS_MAX_DAYS_OFF == 365

\* The files a reduction leaves behind, and what the caller sees of it.
reduce_img_effect(light_file, max_days_off, out) ==
    /\ ledger' = out.ledger
    /\ reduced' = out.reduced
    /\ last' = [op |-> "reduce_img", light_file |-> light_file,
                max_days_off |-> max_days_off, st |-> out.st, offs |-> out.offs,
                ledger0 |-> ledger, reduced0 |-> reduced]

reduce_img(light_file, max_days_off) ==
    /\ pass.pc = "idle" /\ last = NoCall
    /\ Len(ledger.lines) <= MaxRows
    /\ reduce_img_effect(light_file, max_days_off,
                         Reduction_reduce_img(store, cor_dirs, lsrev, ledger, reduced,
                                              light_file, max_days_off))
    /\ UNCHANGED <<store, headers, cor_dirs, lsrev, obs, run, pass>>

\* The store of the engine specifications: at most one master bias, one
\* master dark and one master flat, each in any partition.
ReduceFiles == {f \in MasterFiles : f.idx = 1 /\ f.fltr # FLT_OIII}

OnePerKind(f) == \A g \in store : g.kind # f.kind

NextReduce ==
    \/ \E n \in Nights : mkdir_cor_dir(n)
    \/ \E f \in ReduceFiles : OnePerKind(f) /\ save_fits(f)
    \/ \E p \in LightPaths : reduce_img(p, REDUCE_IMGS_MAX_DAYS_OFF)
    \/ Continue

SpecReduce == Init /\ [][NextReduce]_vars

(***************************************************************************)
(* rerun_pending: the retry pass over the pending log (controller).        *)
(***************************************************************************)
\* datetime.now() of a pass: the day after the observed night, on which no
\* expiry date written for that night has passed, and a day on which every
\* one has.
Todays == {1, MaxDay + 1}

\* max_days_off = 365, lowered to abs(max(int(...), int(...), int(...)))
\* when the three ages are integers.
RERUN_MAX_DAYS_OFF == 365

\* Faulty variant of rerun_max_days_off: the ages are not looked at.
rerun_max_days_off_Always365(bias_off, dark_off, flat_off) == RERUN_MAX_DAYS_OFF

rerun_max_days_off(bias_off, dark_off, flat_off) ==
    IF IsIntText(bias_off) /\ IsIntText(dark_off) /\ IsIntText(flat_off)
    THEN Abs(Max3(IntVal(bias_off), IntVal(dark_off), IntVal(flat_off)))
    ELSE RERUN_MAX_DAYS_OFF

\* What the pass leaves behind when it ends, by return or by exception.
PassEnded(st) ==
    [op |-> "rerun_pending", st |-> st, present |-> pass.present,
     ledger0 |-> pass.ledger0, appended |-> pass.appended, steps |-> pass.steps]

\* The log is read and overwritten with its header.
rerun_pending(today) ==
    /\ pass.pc = "idle" /\ last = NoCall
    /\ IF ~ledger.exists
       THEN /\ last' = [op |-> "rerun_pending", st |-> "FileNotFoundError",
                        present |-> DateOfNight(today), ledger0 |-> ledger,
                        appended |-> <<>>, steps |-> <<>>]
            /\ UNCHANGED <<ledger, pass>>
       ELSE LET lines == read_pending_log(ledger)
            IN IF Len(lines) = 0
               THEN /\ last' = [op |-> "rerun_pending", st |-> "returned",
                                present |-> DateOfNight(today), ledger0 |-> ledger,
                                appended |-> <<>>, steps |-> <<>>]
                    /\ UNCHANGED <<ledger, pass>>
               ELSE /\ ledger' = rewrite_header(lines)
                    /\ pass' = [pc |-> "loop", present |-> DateOfNight(today),
                                lines |-> Tail(lines), ledger0 |-> ledger,
                                appended |-> <<>>, steps |-> <<>>]
                    /\ UNCHANGED last
    /\ UNCHANGED <<store, headers, cor_dirs, lsrev, obs, run, reduced>>

\* line = np.array([entry.strip() for entry in line])
stripped(raw) == [i \in 1 .. Len(raw) |-> strip(raw[i])]

\* expiry_date.date() < present.date(), when the Expires field was parsed.
is_expired(expiry_date, present) ==
    expiry_date.st = "ok" /\ DateLess(expiry_date.date, present)

\* What one iteration did with a line, and the lines it added to the log.
pass_step(raw, did, max_days_off, led) ==
    [line |-> raw, did |-> did, max_days_off |-> max_days_off,
     added |-> SubSeq(led.lines, Len(ledger.lines) + 1, Len(led.lines))]

pass_next(s) ==
    [pass EXCEPT !.lines = Tail(@), !.steps = Append(@, s), !.appended = @ \o s.added]

\* fut.reduce_img(...) for a "Light file" line: the loop goes on when it
\* returns, the pass ends when it raises.
rerun_light(raw, max_days_off, out) ==
    /\ ledger' = out.ledger
    /\ reduced' = out.reduced
    /\ UNCHANGED <<store, headers>>
    /\ IF out.st = "failed"
       THEN /\ pass' = pass_next(pass_step(raw, "reduce_img", max_days_off, out.ledger))
            /\ UNCHANGED last
       ELSE /\ pass' = NoPass
            /\ last' = [PassEnded(out.st) EXCEPT
                          !.steps = Append(@, pass_step(raw, "reduce_img", max_days_off,
                                                         out.ledger))]

\* What one iteration did with a line of a master frame: the function
\* called, how it ended and the cluster index it took from the path.
master_step(raw, did, out) ==
    [line |-> raw, did |-> did, max_days_off |-> 365, st |-> out.st,
     cluster |-> out.cluster,
     added |-> SubSeq(out.ledger.lines, Len(ledger.lines) + 1, Len(out.ledger.lines))]

\* fut.recreate_mflat(...) or fut.recreate_mdark(...) for a line of a master
\* frame: the loop goes on when it returns, the pass ends when it raises.
rerun_master(raw, did, out) ==
    /\ ledger' = out.ledger
    /\ store' = out.store
    /\ headers' = save_headers(headers, out)
    /\ UNCHANGED reduced
    /\ IF out.st = "done"
       THEN /\ pass' = pass_next(master_step(raw, did, out))
            /\ UNCHANGED last
       ELSE /\ pass' = NoPass
            /\ last' = [PassEnded(out.st) EXCEPT
                          !.steps = Append(@, master_step(raw, did, out))]

\* The body of the loop for a line of nine fields.
rerun_fields(raw, line) ==
    IF is_expired(strptime_dmY(line[8]), pass.present)
    THEN /\ pass' = pass_next(pass_step(raw, "continue", 0, ledger))
         /\ UNCHANGED <<store, headers, ledger, reduced, last>>
    ELSE IF line[2] = LIGHT_FILE
    THEN rerun_light(raw, rerun_max_days_off(line[5], line[6], line[7]),
                     reduce_img_ct(store, cor_dirs, lsrev, ledger, reduced, line[9],
                                   rerun_max_days_off(line[5], line[6], line[7])))
    ELSE IF line[2] = FLAT_FILE
    THEN rerun_master(raw, "recreate_mflat",
                      recreate_mflat(store, cor_dirs, lsrev, ledger, line[9], line[3], line[4]))
    ELSE IF line[2] = DARK_FILE
    THEN rerun_master(raw, "recreate_mdark",
                      recreate_mdark(store, cor_dirs, lsrev, ledger, line[9], line[3], line[4]))
    ELSE \* Any other frame type: the iteration does nothing.
         /\ pass' = pass_next(pass_step(raw, "none", 0, ledger))
         /\ UNCHANGED <<store, headers, ledger, reduced, last>>

\* One iteration of  for line in lines[1:] .
rerun_line ==
    /\ pass.pc = "loop" /\ Len(pass.lines) > 0
    /\ IF Len(Head(pass.lines)) # 9
       THEN /\ pass' = NoPass /\ last' = PassEnded("ValueError")
            /\ UNCHANGED <<store, headers, ledger, reduced>>
       ELSE rerun_fields(Head(pass.lines), stripped(Head(pass.lines)))
    /\ UNCHANGED <<cor_dirs, lsrev, obs, run>>

\* The loop is over: the pass returns.
rerun_return ==
    /\ pass.pc = "loop" /\ Len(pass.lines) = 0
    /\ pass' = NoPass
    /\ last' = PassEnded("returned")
    /\ UNCHANGED <<store, headers, cor_dirs, lsrev, obs, run, ledger, reduced>>

NextRetry ==
    \/ \E n \in Nights : mkdir_cor_dir(n)
    \/ \E f \in ReduceFiles : OnePerKind(f) /\ save_fits(f)
    \/ \E p \in LightPaths : reduce_img(p, REDUCE_IMGS_MAX_DAYS_OFF)
    \/ \E today \in Todays : rerun_pending(today)
    \/ rerun_line
    \/ rerun_return
    \/ Continue

\* With one master frame of a type the listing order plays no part.
InitRetry == Init /\ ~lsrev

SpecRetry == InitRetry /\ [][NextRetry]_vars

(***************************************************************************)
(* reduce_imgs: every light file of the night is reduced in turn.          *)
(***************************************************************************)
\* sorted(plp.lightFiles, key=DATE-OBS)
RECURSIVE SortByDateObs(_)
SortByDateObs(S) ==
    IF S = {} THEN <<>>
    ELSE LET l == CHOOSE x \in S : \A y \in S : creation_datetime(x) <= creation_datetime(y)
         IN <<LightPath(l)>> \o SortByDateObs(S \ {l})

\* for light_file in lightFiles: self.reduce_img(obs, plp, light_file, 365)
\* The loop goes on when reduce_img returns and is left when it raises.
RECURSIVE reduce_loop(_, _, _, _, _, _, _)
RECURSIVE reduce_loop_next(_, _, _, _, _, _)
reduce_loop(st, dirs, rev, led, red, files, attempted) ==
    IF Len(files) = 0
    THEN [st |-> "returned", ledger |-> led, reduced |-> red, attempted |-> attempted]
    ELSE reduce_loop_next(st, dirs, rev, files, attempted,
                          Reduction_reduce_img(st, dirs, rev, led, red, Head(files),
                                               REDUCE_IMGS_MAX_DAYS_OFF))

reduce_loop_next(st, dirs, rev, files, attempted, out) ==
    IF out.st \in {"failed", "done"}
    THEN reduce_loop(st, dirs, rev, out.ledger, out.reduced, Tail(files),
                     Append(attempted, Head(files)))
    ELSE [st |-> out.st, ledger |-> out.ledger, reduced |-> out.reduced,
          attempted |-> Append(attempted, Head(files))]

reduce_imgs_effect(out) ==
    /\ ledger' = out.ledger
    /\ reduced' = out.reduced
    /\ last' = [op |-> "reduce_imgs", st |-> out.st, attempted |-> out.attempted,
                ledger0 |-> ledger, reduced0 |-> reduced]

reduce_imgs ==
    /\ pass.pc = "idle" /\ last = NoCall
    /\ Len(ledger.lines) <= MaxRows
    /\ reduce_imgs_effect(reduce_loop(store, cor_dirs, lsrev, ledger, reduced,
                                      SortByDateObs(LightFiles), <<>>))
    /\ UNCHANGED <<store, headers, cor_dirs, lsrev, obs, run, pass>>

NextNight ==
    \/ \E n \in Nights : mkdir_cor_dir(n)
    \/ \E f \in ReduceFiles : OnePerKind(f) /\ save_fits(f)
    \/ reduce_imgs
    \/ Continue

SpecNight == Init /\ [][NextNight]_vars

(***************************************************************************)
(* Retry passes of several processes on one pending log.  A process reads  *)
(* the log, overwrites it with its header and runs its lines again, each   *)
(* a step of its own; reductions of the engine append in between.  In this *)
(* specification  pass  holds the progress of every process.               *)
(***************************************************************************)
Procs == {1, 2}

\* datetime.now() of the passes: the day after the observed night.
RacePresent == DateOfNight(1)

\* Faulty variant of race_rewrite_log: the lines the log has got since it
\* was read are written back after the header.
race_rewrite_log_KeepUnread(lines, led) ==
    [exists |-> TRUE,
     lines |-> rewrite_header(lines).lines
                 \o SubSeq(led.lines, Len(lines) + 1, Len(led.lines))]

\* open(pd_log, "wb") and the header of the lines read: what the log holds
\* at that moment plays no part.
race_rewrite_log(lines, led) == rewrite_header(lines)

InitRace ==
    /\ store = {}
    /\ cor_dirs = Nights
    /\ lsrev = FALSE
    /\ ledger = NoLedger
    /\ reduced = {}
    /\ last = NoCall
    /\ pass = [p \in Procs |-> [pc |-> "idle", lines |-> <<>>, steps |-> <<>>]]
    /\ obs = NoObs
    /\ run = NoRun
    /\ headers = {}

\* The light files reduce_imgs has still to reduce, in its order.
race_lights_left ==
    IF last = NoCall THEN SortByDateObs(LightFiles)
    ELSE LET files == SortByDateObs(LightFiles)
             k == CHOOSE i \in 1 .. Len(files) : files[i] = last.light_file
         IN SubSeq(files, k + 1, Len(files))

\* A reduction of the engine, by a process of its own: reduce_imgs takes
\* the next light file of the night.
race_reduce(light_file) ==
    /\ Len(race_lights_left) > 0 /\ light_file = Head(race_lights_left)
    /\ reduce_img_effect(light_file, REDUCE_IMGS_MAX_DAYS_OFF,
                         Reduction_reduce_img(store, cor_dirs, lsrev, ledger, reduced,
                                              light_file, REDUCE_IMGS_MAX_DAYS_OFF))
    /\ UNCHANGED <<store, headers, cor_dirs, lsrev, obs, run, pass>>

\* lines = np.array(read_pending_log())
\* The processes are alike: the one that reads first is called 1.
race_read(p) ==
    /\ pass[p].pc = "idle"
    /\ \A q \in Procs : q < p => pass[q].pc # "idle"
    /\ IF ledger.exists
       THEN pass' = [pass EXCEPT ![p] = [pc |-> "read", lines |-> read_pending_log(ledger),
                                         steps |-> <<>>]]
       ELSE pass' = [pass EXCEPT ![p] = [pc |-> "done", lines |-> <<>>, steps |-> <<>>]]
    /\ UNCHANGED <<store, headers, cor_dirs, lsrev, obs, run, ledger, reduced, last>>

\* The log is overwritten with the header.
race_rewrite(p) ==
    /\ pass[p].pc = "read"
    /\ ledger' = race_rewrite_log(pass[p].lines, ledger)
    /\ pass' = [pass EXCEPT ![p] = [pc |-> "loop", lines |-> Tail(pass[p].lines),
                                     steps |-> <<>>]]
    /\ UNCHANGED <<store, headers, cor_dirs, lsrev, obs, run, reduced, last>>

\* The process has dealt with the first of its lines: it goes on with the
\* rest when the call returned, and ends when it raised.
race_done(p, goes_on) ==
    pass' = [pass EXCEPT ![p] = [pc |-> IF goes_on THEN "loop" ELSE "done",
                                 lines |-> IF goes_on THEN Tail(pass[p].lines) ELSE <<>>,
                                 steps |-> Append(pass[p].steps, Head(pass[p].lines))]]

race_light(p, out) ==
    /\ ledger' = out.ledger
    /\ reduced' = out.reduced
    /\ race_done(p, out.st = "failed")
    /\ UNCHANGED <<store, headers>>

race_master(p, out) ==
    /\ ledger' = out.ledger
    /\ store' = out.store
    /\ headers' = save_headers(headers, out)
    /\ race_done(p, out.st = "done")
    /\ UNCHANGED reduced

\* The body of the loop for a line of nine fields.
race_fields(p, line) ==
    IF is_expired(strptime_dmY(line[8]), RacePresent)
    THEN race_done(p, TRUE) /\ UNCHANGED <<store, headers, ledger, reduced>>
    ELSE IF line[2] = LIGHT_FILE
    THEN race_light(p, reduce_img_ct(store, cor_dirs, lsrev, ledger, reduced, line[9],
                                     rerun_max_days_off(line[5], line[6], line[7])))
    ELSE IF line[2] = FLAT_FILE
    THEN race_master(p, recreate_mflat(store, cor_dirs, lsrev, ledger, line[9],
                                       line[3], line[4]))
    ELSE IF line[2] = DARK_FILE
    THEN race_master(p, recreate_mdark(store, cor_dirs, lsrev, ledger, line[9],
                                       line[3], line[4]))
    ELSE race_done(p, TRUE) /\ UNCHANGED <<store, headers, ledger, reduced>>

\* One iteration of  for line in lines[1:]  of a process.
race_line(p) ==
    /\ pass[p].pc = "loop" /\ Len(pass[p].lines) > 0
    /\ IF Len(Head(pass[p].lines)) # 9
       THEN race_done(p, FALSE) /\ UNCHANGED <<store, headers, ledger, reduced>>
       ELSE race_fields(p, stripped(Head(pass[p].lines)))
    /\ UNCHANGED <<cor_dirs, lsrev, obs, run, last>>

\* The loop of a process is over.
race_return(p) ==
    /\ pass[p].pc = "loop" /\ Len(pass[p].lines) = 0
    /\ pass' = [pass EXCEPT ![p].pc = "done"]
    /\ UNCHANGED <<store, headers, cor_dirs, lsrev, obs, run, ledger, reduced, last>>

NextRace ==
    \/ \E l \in LightPaths : race_reduce(l)
    \/ \E p \in Procs : race_read(p)
    \/ \E p \in Procs : race_rewrite(p)
    \/ \E p \in Procs : race_line(p)
    \/ \E p \in Procs : race_return(p)

SpecRace == InitRace /\ [][NextRace]_vars

(***************************************************************************)
(* get_file_clusters: exposures taken shortly after each other are grouped.*)
(***************************************************************************)
\* step=3600, in seconds.
CLUSTER_STEP == 3600

\* An exposure: its file and its DATE-OBS in seconds.
Exposures == {[file |-> i, date_obs |-> h * 3600] : i \in 1 .. MaxFiles, h \in 0 .. MaxHour}

\* sorted(files, key=DATE-OBS): one more element is put after the elements
\* with a key not greater than its own (the sort is stable).
RECURSIVE sorted(_)
sorted(files) ==
    IF Len(files) = 0 THEN <<>>
    ELSE LET init == sorted(SubSeq(files, 1, Len(files) - 1))
             x == files[Len(files)]
             n == Cardinality({i \in 1 .. Len(init) : init[i].date_obs <= x.date_obs})
         IN SubSeq(init, 1, n) \o <<x>> \o SubSeq(init, n + 1, Len(init))

\* files.index(file), counted from 0.
files_index(files, file) ==
    (CHOOSE i \in 1 .. Len(files) : files[i] = file /\ \A j \in 1 .. (i - 1) : files[j] # file) - 1

\* The loop over files_sorted from position k on: step_inds gets the index
\* the file has in  files  when it was taken more than step seconds after
\* the previous one.
RECURSIVE step_loop(_, _, _, _, _, _)
step_loop(files, files_sorted, step, k, prev_creation, step_inds) ==
    IF k > Len(files_sorted) THEN step_inds
    ELSE step_loop(files, files_sorted, step, k + 1, files_sorted[k].date_obs,
                   IF files_sorted[k].date_obs - prev_creation > step
                   THEN Append(step_inds, files_index(files, files_sorted[k]))
                   ELSE step_inds)

\* list[a:b] of Python for a, b >= 0.
Slice(list, a, b) ==
    IF a >= b \/ a >= Len(list) THEN <<>>
    ELSE SubSeq(list, a + 1, IF b > Len(list) THEN Len(list) ELSE b)

\* The clusters cut out of files_sorted at step_inds.
group_clusters(files_sorted, step_inds) ==
    IF Len(step_inds) = 0 THEN <<files_sorted>>
    ELSE <<Slice(files_sorted, 0, step_inds[1])>>
         \o [ind \in 1 .. (Len(step_inds) - 1) |->
                Slice(files_sorted, step_inds[ind], step_inds[ind + 1])]
         \o <<Slice(files_sorted, step_inds[Len(step_inds)], Len(files_sorted))>>

\* prev_creation starts as the DATE-OBS of files[0]: an empty list has no
\* files[0] and the subscript raises IndexError.
get_file_clusters(files, step) ==
    IF Len(files) = 0 THEN [st |-> "IndexError", clusters |-> <<>>]
    ELSE [st |-> "returned",
          clusters |-> group_clusters(sorted(files),
                           step_loop(files, sorted(files), step, 1, files[1].date_obs, <<>>))]

\* The lists of exposures of a night, in any order: every file once; a
\* night may have no exposure of a kind at all.
FileLists ==
    {<<>>} \cup UNION {{fs \in [1 .. n -> Exposures] :
              \A i, j \in 1 .. n : i # j => fs[i].file # fs[j].file} : n \in 1 .. MaxFiles}

InitCluster ==
    /\ store = {}
    /\ cor_dirs = {}
    /\ lsrev = FALSE
    /\ ledger = NoLedger
    /\ reduced = {}
    /\ pass = NoPass
    /\ obs = NoObs
    /\ run = NoRun
    /\ headers = {}
    /\ last \in {[op |-> "files", files |-> fs] : fs \in FileLists}

Cluster ==
    /\ last.op = "files"
    /\ LET out == get_file_clusters(last.files, CLUSTER_STEP)
       IN last' = [op |-> "get_file_clusters", files |-> last.files,
                   st |-> out.st, clusters |-> out.clusters]
    /\ UNCHANGED <<store, headers, cor_dirs, lsrev, obs, run, ledger, reduced, pass>>

NextCluster == Cluster

SpecCluster == InitCluster /\ [][NextCluster]_vars

(***************************************************************************)
(* create_corrections: the master darks and master flats of the observed   *)
(* night are built, cluster by cluster.                                    *)
(***************************************************************************)
\* The night whose frames are processed.
TheNight == CHOOSE n \in Nights : TRUE

CREATE_MAX_DAYS_OFF == 365

create_master_effect(op, index, out) ==
    /\ store' = out.store
    /\ headers' = save_headers(headers, out)
    /\ ledger' = out.ledger
    /\ last' = [op |-> op, index |-> index, st |-> out.st,
                ledger0 |-> ledger, store0 |-> store, headers0 |-> headers]

\* self.create_mdark(obs, plp, d_cluster, d_clusters.index(d_cluster))
create_mdark(index) ==
    /\ pass.pc = "idle" /\ last = NoCall
    /\ TheNight \in cor_dirs
    /\ Len(ledger.lines) <= MaxRows
    /\ create_master_effect("create_mdark", index,
           Correction_create_mdark(store, cor_dirs, lsrev, ledger, TheNight,
                                   DarkClusters[index + 1], index, CREATE_MAX_DAYS_OFF))
    /\ UNCHANGED <<cor_dirs, lsrev, obs, run, reduced, pass>>

\* self.create_mflat(obs, plp, f_cluster, fltr, f_clusters.index(f_cluster))
create_mflat(index) ==
    /\ pass.pc = "idle" /\ last = NoCall
    /\ TheNight \in cor_dirs
    /\ Len(ledger.lines) <= MaxRows
    /\ create_master_effect("create_mflat", index,
           Correction_create_mflat(store, cor_dirs, lsrev, ledger, TheNight,
                                   FlatClusters[index + 1], index, CREATE_MAX_DAYS_OFF))
    /\ UNCHANGED <<cor_dirs, lsrev, obs, run, reduced, pass>>

\* Master frames of other runs: a master bias and a master dark, each in
\* any partition.  The retry pass runs on the day after the night.
BuildFiles == {f \in ReduceFiles : f.kind # MASTER_FLAT}

NextBuild ==
    \/ \E n \in Nights : mkdir_cor_dir(n)
    \/ \E f \in BuildFiles : OnePerKind(f) /\ save_fits(f)
    \/ \E i \in 0 .. (Len(DarkClusters) - 1) : create_mdark(i)
    \/ \E i \in 0 .. (Len(FlatClusters) - 1) : create_mflat(i)
    \/ \E p \in LightPaths : reduce_img(p, REDUCE_IMGS_MAX_DAYS_OFF)
    \/ rerun_pending(TheNight + 1)
    \/ rerun_line
    \/ rerun_return
    \/ Continue

SpecBuild == InitRetry /\ [][NextBuild]_vars

(***************************************************************************)
(* Master frames made again: master biases of other nights arrive between  *)
(* the builds, the reductions and the retry passes of the observed night.  *)
(***************************************************************************)
\* create_mbias of the correction run of another night: its master bias is
\* saved in the partition of that night.  At most one master bias of an
\* earlier night and one of a later night arrive.
create_mbias_other(f) ==
    /\ pass.pc = "idle" /\ last = NoCall
    /\ f.kind = MASTER_BIAS /\ f.day # TheNight
    /\ \A g \in store : g.kind = MASTER_BIAS => (g.day < TheNight) # (f.day < TheNight)
    /\ store' = store \cup {f}
    /\ UNCHANGED <<cor_dirs, lsrev, obs, run, ledger, reduced, last, pass, headers>>

\* The light files with the binning of the calibration clusters of the night.
RebuildLights == {p \in LightPaths : get_file_info(p).binning = DarkClusters[1].binning}

NextRebuild ==
    \/ \E n \in Nights : mkdir_cor_dir(n)
    \/ \E f \in BuildFiles : create_mbias_other(f)
    \/ \E i \in 0 .. (Len(DarkClusters) - 1) : create_mdark(i)
    \/ \E i \in 0 .. (Len(FlatClusters) - 1) : create_mflat(i)
    \/ \E p \in RebuildLights : reduce_img(p, REDUCE_IMGS_MAX_DAYS_OFF)
    \/ rerun_pending(TheNight + 1)
    \/ rerun_line
    \/ rerun_return
    \/ Continue

SpecRebuild == InitRetry /\ [][NextRebuild]_vars

(***************************************************************************)
(* Observation: check_binning and the builders of the master frames.  A    *)
(* frame is a record of its path and its BINNING keyword; a master matrix  *)
(* is known by the frames and the masters it was made from.                *)
(***************************************************************************)
None == [made |-> FALSE]

\* Observation(foldername): the frames of the folder by image kind, the
\* filters met, and no master cached.
Observation(bias, dark, flat) ==
    [made |-> TRUE, biasFiles |-> bias, darkFiles |-> dark, flatFiles |-> flat,
     filters |-> <<FLT_I>>,
     masterBias |-> None, masterDark |-> None, masterFlats |-> None]

\* Faulty variant of check_binning: only the first file is looked at.
check_binning_First(files) ==
    IF Len(files) = 0 THEN [st |-> "IndexError"] ELSE [st |-> "ok"]

\* check_binning(files): IncompatibleBinningError(file, binning,
\* current_binning) for the first file that differs from files[0].
check_binning(files) ==
    IF Len(files) = 0 THEN [st |-> "IndexError"]
    ELSE IF \A i \in 1 .. Len(files) : files[i].binning = files[1].binning
    THEN [st |-> "ok"]
    ELSE LET i == CHOOSE k \in 1 .. Len(files) :
                      /\ files[k].binning # files[1].binning
                      /\ \A j \in 1 .. (k - 1) : files[j].binning = files[1].binning
         IN [st |-> "IncompatibleBinningError", file |-> files[i].name,
             binning |-> files[1].binning, f_binning |-> files[i].binning]

\* What a builder gives: the master returned and the Observation after the
\* call, or the exception of check_binning with the Observation as it was.
builder_result(o, c, field, master) ==
    IF c.st # "ok"
    THEN [st |-> c.st, err |-> c, ret |-> None, obs |-> o]
    ELSE [st |-> "returned", err |-> c, ret |-> master,
          obs |-> IF field = "none" THEN o ELSE [o EXCEPT ![field] = master]]

\* create_master_bias(biasFiles)
create_master_bias(o, biasFiles) ==
    builder_result(o, check_binning(biasFiles), "masterBias",
                   [made |-> TRUE, kind |-> MASTER_BIAS, of |-> biasFiles])

\* create_master_dark(darkFiles, masterBias)
create_master_dark(o, darkFiles, masterBias) ==
    builder_result(o, check_binning(darkFiles), "masterDark",
                   [made |-> TRUE, kind |-> MASTER_DARK, of |-> darkFiles,
                    masterBias |-> masterBias])

\* create_master_flats(flatFiles, filterTypes, masterDark, masterBias): the
\* result is kept on the Observation when filterTypes == self.filters.
create_master_flats(o, flatFiles, filterTypes, masterDark, masterBias) ==
    builder_result(o, check_binning(flatFiles),
                   IF filterTypes = o.filters THEN "masterFlats" ELSE "none",
                   [made |-> TRUE, kind |-> MASTER_FLAT, of |-> flatFiles,
                    masterDark |-> masterDark, masterBias |-> masterBias])

(***************************************************************************)
(* Correction: the master frames of a cluster of frames are built and      *)
(* saved.  The keywords of a cluster are read from its last frame.         *)
(***************************************************************************)
\* binning, fltr = plp.get_file_info(cluster[-1], ["BINNING", "FILTER"]),
\* DATE-OBS of cluster[-1] and the path cluster[0].
cluster_info(files) ==
    [binning |-> files[Len(files)].binning, fltr |-> FLT_I, tick |-> 0,
     first |-> files[1].name, files |-> files]

mbias_file(night, cl, index) ==
    [day |-> night, kind |-> MASTER_BIAS, binning |-> cl.binning, fltr |-> NOFILTER,
     idx |-> index + 1]

\* Correction.create_mbias
Correction_create_mbias(o, stor, hdrs, led, night, cl, index, r) ==
    IF r.st # "returned"
    THEN [st |-> r.st, err |-> r.err, obs |-> o, store |-> stor, headers |-> hdrs,
          ledger |-> led]
    ELSE [st |-> "done", err |-> r.err, obs |-> r.obs,
          store |-> stor \cup {mbias_file(night, cl, index)},
          headers |-> {h \in hdrs : h.file # mbias_file(night, cl, index)}
                        \cup {[file |-> mbias_file(night, cl, index),
                               mbias |-> NoFile, mdark |-> NoFile]},
          ledger |-> led]

\* Correction.create_mdark and Correction.create_mflat with the builder of
\* the Observation: out is what the resolution, the save and the pending
\* log give, r what the builder gives between the resolution and the save.
\* An exception of the builder leaves the function before anything is saved.
built_master(o, stor, hdrs, led, out, r) ==
    IF out.st # "done"
    THEN [st |-> out.st, err |-> [st |-> "ok"], obs |-> o, store |-> out.store,
          headers |-> hdrs, ledger |-> out.ledger]
    ELSE IF r.st # "returned"
    THEN [st |-> r.st, err |-> r.err, obs |-> o, store |-> stor, headers |-> hdrs,
          ledger |-> led]
    ELSE [st |-> "done", err |-> r.err, obs |-> r.obs, store |-> out.store,
          headers |-> save_headers(hdrs, out), ledger |-> out.ledger]

\* mdark = plp.create_master_dark(d_cluster, closest_mbias)
built_mdark(o, stor, hdrs, led, cl, out) ==
    built_master(o, stor, hdrs, led, out,
                 create_master_dark(o, cl.files,
                                    IF out.st = "done" THEN out.written.mbias ELSE NoFile))

\* mflat = plp.create_master_flats(f_cluster, [fltr], closest_mbias, closest_mdark)
built_mflat(o, stor, hdrs, led, cl, out) ==
    built_master(o, stor, hdrs, led, out,
                 create_master_flats(o, cl.files, <<cl.fltr>>,
                                     IF out.st = "done" THEN out.written.mbias ELSE NoFile,
                                     IF out.st = "done" THEN out.written.mdark ELSE NoFile))

\* One call of the loops of create_corrections, w naming the kind, the
\* frames and the index of the cluster.
create_master(o, stor, hdrs, dirs, rev, led, night, w) ==
    IF w.kind = MASTER_BIAS
    THEN Correction_create_mbias(o, stor, hdrs, led, night, cluster_info(w.files),
                                 w.index, create_master_bias(o, w.files))
    ELSE IF w.kind = MASTER_DARK
    THEN built_mdark(o, stor, hdrs, led, cluster_info(w.files),
                     Correction_create_mdark(stor, dirs, rev, led, night,
                                             cluster_info(w.files), w.index,
                                             CREATE_MAX_DAYS_OFF))
    ELSE built_mflat(o, stor, hdrs, led, cluster_info(w.files),
                     Correction_create_mflat(stor, dirs, rev, led, night,
                                             cluster_info(w.files), w.index,
                                             CREATE_MAX_DAYS_OFF))

\* obs.get_binnings(plp.lightFiles): the binnings of the light files, each
\* once.
RECURSIVE get_binnings(_, _)
get_binnings(paths, seen) ==
    IF Len(paths) = 0 THEN seen
    ELSE get_binnings(Tail(paths),
                      IF \E i \in 1 .. Len(seen) : seen[i] = get_file_info(Head(paths)).binning
                      THEN seen
                      ELSE Append(seen, get_file_info(Head(paths)).binning))

\* plp.get_bias_clusters(binning), get_dark_clusters(binning) and
\* get_flat_clusters(binning, fltr): the frames of one kind are one cluster,
\* filed under the binning of the frame that opens it.
get_clusters(files, binning) ==
    IF Len(files) > 0 /\ files[1].binning = binning THEN <<files>> ELSE <<>>

\* for cluster in clusters: create_m...(obs, plp, cluster, clusters.index(cluster))
cluster_calls(kind, clusters) ==
    [i \in 1 .. Len(clusters) |-> [kind |-> kind, files |-> clusters[i], index |-> i - 1]]

\* Faulty variant of corrections_calls: the dark clusters of a binning come
\* before its bias clusters.
RECURSIVE corrections_calls_DarkFirst(_, _)
corrections_calls_DarkFirst(o, binnings) ==
    IF Len(binnings) = 0 THEN <<>>
    ELSE cluster_calls(MASTER_DARK, get_clusters(o.darkFiles, Head(binnings)))
           \o cluster_calls(MASTER_BIAS, get_clusters(o.biasFiles, Head(binnings)))
           \o cluster_calls(MASTER_FLAT, get_clusters(o.flatFiles, Head(binnings)))
           \o corrections_calls_DarkFirst(o, Tail(binnings))

\* The calls of create_corrections in their order: for every binning the
\* bias clusters, the dark clusters and the flat clusters of every filter.
RECURSIVE corrections_calls(_, _)
corrections_calls(o, binnings) ==
    IF Len(binnings) = 0 THEN <<>>
    ELSE cluster_calls(MASTER_BIAS, get_clusters(o.biasFiles, Head(binnings)))
           \o cluster_calls(MASTER_DARK, get_clusters(o.darkFiles, Head(binnings)))
           \o cluster_calls(MASTER_FLAT, get_clusters(o.flatFiles, Head(binnings)))
           \o corrections_calls(o, Tail(binnings))

(***************************************************************************)
(* BlaauwPipe.start for the target of the observed night: the Observation  *)
(* is made and checked, then the plugins run in the order of their call    *)
(* level, the corrections before the reductions.  run  holds the position  *)
(* in start, the calls of create_corrections still to make and the calls   *)
(* made.                                                                   *)
(***************************************************************************)
\* Faulty variant of check_obs: nothing is raised.
check_obs_NoRaise(o) == "returned"

\* check_obs: MissingFramesError when frame_check has come down to 0.
check_obs(o) ==
    IF 3 - (IF Len(o.biasFiles) > 0 THEN 0 ELSE 1)
         - (IF Len(o.darkFiles) > 0 THEN 0 ELSE 1)
         - (IF Len(o.flatFiles) > 0 THEN 0 ELSE 1) = 0
    THEN "MissingFramesError"
    ELSE "returned"

\* The frames of one kind found in the folder of the night: up to MaxMembers
\* frames, each with the binning of its header.
FrameLists(letter) ==
    {<<>>} \cup
    UNION {{[i \in 1 .. n |-> [name |-> strftime_ymd(DateOfNight(TheNight))
                                          \o <<"/", letter>> \o IntStr(i)
                                          \o <<".","f","i","t","s">>,
                                binning |-> bs[i]]] : bs \in [1 .. n -> Binnings]}
           : n \in 1 .. MaxMembers}

\* start up to run_plugins: create_observation with check_obs.
start(bias, dark, flat) ==
    /\ run.pc = "idle" /\ pass.pc = "idle" /\ last = NoCall
    /\ obs' = Observation(bias, dark, flat)
    /\ run' = IF check_obs(Observation(bias, dark, flat)) = "returned"
              THEN [pc |-> "plugins", err |-> "none", calls |-> <<>>, made |-> <<>>]
              ELSE [pc |-> "raised", err |-> check_obs(Observation(bias, dark, flat)),
                    calls |-> <<>>, made |-> <<>>]
    /\ UNCHANGED <<store, headers, cor_dirs, lsrev, ledger, reduced, last, pass>>

\* create_corrections up to its loops: the saving dir and the clusters.
create_corrections ==
    /\ run.pc = "plugins"
    /\ cor_dirs' = cor_dirs \cup {TheNight}
    /\ run' = [run EXCEPT !.pc = "corrections",
                          !.calls = corrections_calls(obs,
                                        get_binnings(SortByDateObs(LightFiles), <<>>))]
    /\ UNCHANGED <<store, headers, lsrev, obs, ledger, reduced, last, pass>>

create_next_effect(w, out) ==
    /\ obs' = out.obs
    /\ store' = out.store
    /\ headers' = out.headers
    /\ ledger' = out.ledger
    /\ run' = [pc |-> IF out.st \in {"done", "failed"} THEN "corrections" ELSE "raised",
               err |-> IF out.st \in {"done", "failed"} THEN "none" ELSE out.st,
               calls |-> Tail(run.calls),
               made |-> Append(run.made, [kind |-> w.kind, files |-> w.files,
                                          index |-> w.index, st |-> out.st,
                                          err |-> out.err])]

\* One pass of a loop of create_corrections; an exception leaves
\* create_corrections, run_plugins and start.
create_next ==
    /\ run.pc = "corrections" /\ Len(run.calls) > 0
    /\ create_next_effect(Head(run.calls),
                          create_master(obs, store, headers, cor_dirs, lsrev, ledger,
                                        TheNight, Head(run.calls)))
    /\ UNCHANGED <<cor_dirs, lsrev, reduced, last, pass>>

\* The reduction plugin, run after create_corrections has returned.
run_reduce_imgs ==
    /\ run.pc = "corrections" /\ Len(run.calls) = 0
    /\ LET out == reduce_loop(store, cor_dirs, lsrev, ledger, reduced,
                              SortByDateObs(LightFiles), <<>>)
       IN /\ reduce_imgs_effect(out)
          /\ run' = [run EXCEPT !.pc = IF out.st = "returned" THEN "done" ELSE "raised",
                                !.err = IF out.st = "returned" THEN "none" ELSE out.st]
    /\ UNCHANGED <<store, headers, cor_dirs, lsrev, obs, pass>>

NextStart ==
    \/ \E bias \in FrameLists("b"), dark \in FrameLists("d"), flat \in FrameLists("f") :
           start(bias, dark, flat)
    \/ create_corrections
    \/ create_next
    \/ run_reduce_imgs

SpecStart == InitRetry /\ [][NextStart]_vars

(***************************************************************************)
(* The arithmetic of a reduction on one pixel.  A pixel value is a         *)
(* fraction <<numerator, denominator>> in lowest terms with a positive     *)
(* denominator.                                                            *)
(***************************************************************************)
RECURSIVE GCD(_, _)
GCD(a, b) == IF b = 0 THEN a ELSE GCD(b, a % b)

Frac(n, d) ==
    LET s == IF d < 0 THEN 0 - 1 ELSE 1
        g == GCD(Abs(n), Abs(d))
    IN <<(s * n) \div g, (s * d) \div g>>

FracSub(x, y) == Frac(x[1] * y[2] - y[1] * x[2], x[2] * y[2])
FracMul(x, y) == Frac(x[1] * y[1], x[2] * y[2])
FracDiv(x, y) == Frac(x[1] * y[2], x[2] * y[1])

\* Faulty variant of reduce_data: a negative result is set to 0.
reduce_data_Clipped(hdu_data, master_bias, master_dark, exptime, master_flat) ==
    IF FracDiv(FracSub(FracSub(hdu_data, master_bias), FracMul(master_dark, exptime)),
               master_flat)[1] < 0
    THEN Frac(0, 1)
    ELSE FracDiv(FracSub(FracSub(hdu_data, master_bias), FracMul(master_dark, exptime)),
                 master_flat)

\* hdu_data_red = (hdu_data - master_bias - master_dark*exptime) / master_flat
reduce_data(hdu_data, master_bias, master_dark, exptime, master_flat) ==
    FracDiv(FracSub(FracSub(hdu_data, master_bias), FracMul(master_dark, exptime)),
            master_flat)

\* The values of a pixel of the light frame, of the master bias, of the
\* master dark (in halves per second) and of the master flat (in halves,
\* never 0: create_master_flats replaces a 0 of a master flat), and EXPTIME.
PixelLights == {0, 1, 4, 10}
PixelBiases == {0, 2, 5}
PixelDarkHalves == {0, 1, 3}
PixelExptimes == {1, 4}
PixelFlatHalves == {1, 2, 4}

\* Line 72 of reduce_img on one pixel.
reduce_pixel(light, bias, dark2, exptime, flat2) ==
    /\ pass.pc = "idle" /\ last = NoCall
    /\ last' = [op |-> "reduce_data", light |-> light, bias |-> bias, dark2 |-> dark2,
                exptime |-> exptime, flat2 |-> flat2,
                hdu_data_red |-> reduce_data(Frac(light, 1), Frac(bias, 1), Frac(dark2, 2),
                                             Frac(exptime, 1), Frac(flat2, 2))]
    /\ UNCHANGED <<store, headers, cor_dirs, lsrev, obs, run, ledger, reduced, pass>>

NextPixel ==
    \/ \E light \in PixelLights, bias \in PixelBiases, dark2 \in PixelDarkHalves,
          exptime \in PixelExptimes, flat2 \in PixelFlatHalves :
           reduce_pixel(light, bias, dark2, exptime, flat2)
    \/ Continue

SpecPixel == InitRetry /\ [][NextPixel]_vars

(***************************************************************************)
(* Observation.get_file_info: the values of a list of keywords of a        *)
(* header.  A header is a function of the cards it holds; a value is       *)
(* [int |-> n] or [str |-> text].                                          *)
(***************************************************************************)
MaxKeywords == 2

HeaderCards ==
    [NAXIS1 |-> [int |-> 512], NAXIS2 |-> [int |-> 256],
     XBINNING |-> [int |-> 2], YBINNING |-> [int |-> 1],
     FILTER |-> [str |-> FLT_I], EXPTIME |-> [int |-> 4]]

HduHeaders == {[k \in cards |-> HeaderCards[k]] : cards \in SUBSET (DOMAIN HeaderCards)}

RequestKeywords == {"IMGSIZE", "BINNING", "FILTER", "EXPTIME"}
KeywordLists == UNION {[1 .. n -> RequestKeywords] : n \in 0 .. MaxKeywords}

\* hduHeader[keyword]: the value of the card, or a KeyError.
header_getitem(hduHeader, keyword) ==
    IF keyword \in DOMAIN hduHeader THEN [raised |-> FALSE, value |-> hduHeader[keyword]]
    ELSE [raised |-> TRUE]

\* str() of a value of a header.
str(value) == IF "int" \in DOMAIN value THEN IntStr(value.int) ELSE value.str

\* str(hduHeader[a]) + "x" + str(hduHeader[b])
header_pair(hduHeader, a, b) ==
    IF header_getitem(hduHeader, a).raised \/ header_getitem(hduHeader, b).raised
    THEN [raised |-> TRUE]
    ELSE [raised |-> FALSE,
          value |-> [str |-> str(header_getitem(hduHeader, a).value) \o <<"x">>
                               \o str(header_getitem(hduHeader, b).value)]]

\* The body of the try of get_file_info.
keyword_value(hduHeader, keyword) ==
    IF keyword = "IMGSIZE" THEN header_pair(hduHeader, "NAXIS1", "NAXIS2")
    ELSE IF keyword = "BINNING" THEN header_pair(hduHeader, "XBINNING", "YBINNING")
    ELSE header_getitem(hduHeader, keyword)

\* Faulty variant of Observation_get_file_info: a keyword whose read raises
\* appends nothing.
RECURSIVE Observation_get_file_info_Skip(_, _)
Observation_get_file_info_Skip(hduHeader, header_keywords) ==
    IF header_keywords = <<>> THEN <<>>
    ELSE (IF keyword_value(hduHeader, Head(header_keywords)).raised
          THEN <<>>
          ELSE <<keyword_value(hduHeader, Head(header_keywords)).value>>)
         \o Observation_get_file_info_Skip(hduHeader, Tail(header_keywords))

\* Observation.get_file_info on the header of an opened file: the loop over
\* the keywords, with the except clause appending "?".
RECURSIVE Observation_get_file_info(_, _)
Observation_get_file_info(hduHeader, header_keywords) ==
    IF header_keywords = <<>> THEN <<>>
    ELSE (IF keyword_value(hduHeader, Head(header_keywords)).raised
          THEN <<[str |-> <<"?">>]>>
          ELSE <<keyword_value(hduHeader, Head(header_keywords)).value>>)
         \o Observation_get_file_info(hduHeader, Tail(header_keywords))

read_keywords(hduHeader, header_keywords) ==
    /\ pass.pc = "idle" /\ last = NoCall
    /\ last' = [op |-> "get_file_info", hduHeader |-> hduHeader,
                header_keywords |-> header_keywords,
                results |-> Observation_get_file_info(hduHeader, header_keywords)]
    /\ UNCHANGED <<store, headers, cor_dirs, lsrev, obs, run, ledger, reduced, pass>>

NextHeader ==
    \/ \E hduHeader \in HduHeaders, header_keywords \in KeywordLists :
           read_keywords(hduHeader, header_keywords)
    \/ Continue

SpecHeader == InitRetry /\ [][NextHeader]_vars

(***************************************************************************)
(* The retry pass as the pipeline schedules it, with the master frames of  *)
(* the night arriving: a pass is started again and again (it is run at the *)
(* end of the run of every night), and a pass that was started goes on     *)
(* until it returns or raises.                                             *)
(***************************************************************************)
UpgradeFiles == {f \in ReduceFiles : f.day = TheNight}

\* save_fits(savepath, ...) of a master frame of the night that is made
\* after light files of the night were reduced.
save_late(f) ==
    /\ pass.pc = "idle" /\ last = NoCall
    /\ f.day \in cor_dirs
    /\ f \notin store
    /\ store' = store \cup {f}
    /\ UNCHANGED <<cor_dirs, lsrev, obs, run, ledger, reduced, last, pass, headers>>

NextUpgrade ==
    \/ mkdir_cor_dir(TheNight)
    \/ \E f \in UpgradeFiles : save_late(f)
    \/ \E p \in LightPaths : reduce_img(p, REDUCE_IMGS_MAX_DAYS_OFF)
    \/ rerun_pending(TheNight + 1)
    \/ rerun_line
    \/ rerun_return
    \/ Continue

\* The caller goes on after every call and a loop that is over returns
\* (weak fairness); a pass that was started comes to its end, which is weak
\* fairness of the loop body, the only step enabled inside the loop; a pass
\* is started again and again, which is strong fairness of rerun_pending,
\* enabled whenever the caller is between two calls.
SpecUpgrade ==
    /\ InitRetry /\ [][NextUpgrade]_vars
    /\ WF_vars(Continue)
    /\ WF_vars(rerun_return)
    /\ []<>(pass.pc = "idle")
    /\ []<><<rerun_pending(TheNight + 1)>>_vars

(***************************************************************************)
(* Claims about the reduction engine (checked under SpecReduce).           *)
(***************************************************************************)
Reduced == last.op = "reduce_img"

\* What get_closest_master gives for one frame type of the reduction in last.
ResolutionOf(kind) ==
    LET light == get_file_info(last.light_file)
    IN get_closest_master(store, cor_dirs, lsrev,
                          light.night * TicksPerDay + light.tick,
                          NightOfDate(folder_datetime(last.light_file)),
                          last.max_days_off, light.binning, kind,
                          IF kind = MASTER_FLAT THEN light.fltr ELSE NOFILTER)

AllResolved == \A k \in FrameTypes : ResolutionOf(k).st = "ok"
AnyMissing == \E k \in FrameTypes : ResolutionOf(k).st = "SuitableMasterMissingError"
ResolvedOffs ==
    <<ResolutionOf(MASTER_BIAS).off, ResolutionOf(MASTER_DARK).off,
      ResolutionOf(MASTER_FLAT).off>>

\* The lines of the pending log before the reduction are still its first lines.
KeptLines ==
    last.ledger0.exists =>
        /\ Len(ledger.lines) >= Len(last.ledger0.lines)
        /\ SubSeq(ledger.lines, 1, Len(last.ledger0.lines)) = last.ledger0.lines

\* The entries the reduction added to the pending log.
NewLines ==
    IF ~ledger.exists THEN <<>>
    ELSE SubSeq(ledger.lines,
                (IF last.ledger0.exists THEN Len(last.ledger0.lines) ELSE 1) + 1,
                Len(ledger.lines))

\* The nine fields of an entry as a reader sees them.
Entry(text) ==
    LET cells == Split(text, ",") IN [i \in 1 .. Len(cells) |-> strip(cells[i])]

\* C6: when the three resolutions of a reduction return and at least one
\* offset is non-zero (positive or negative), the reduced image is written
\* and exactly one entry for that light file is appended to the pending log.
C6_StaleSuccessRecorded ==
    (/\ Reduced /\ AllResolved
     /\ \E i \in 1 .. 3 : ResolvedOffs[i] # 0) =>
        /\ [path |-> last.light_file, offs |-> ResolvedOffs] \in reduced
        /\ KeptLines
        /\ Len(NewLines) = 1
        /\ Entry(NewLines[1])[9] = last.light_file

\* C7: when a resolution of a reduction raises SuitableMasterMissingError, no
\* reduced image is written, exactly one entry is appended whose three
\* offsets are "?" and whose expiry is "-", and the reduction reports failure.
C7_FailureRecorded ==
    (Reduced /\ AnyMissing) =>
        /\ reduced = last.reduced0
        /\ KeptLines
        /\ Len(NewLines) = 1
        /\ LET e == Entry(NewLines[1])
           IN /\ Len(e) = 9
              /\ e[5] = QMARK /\ e[6] = QMARK /\ e[7] = QMARK
              /\ e[8] = DASH
              /\ strptime_dmY(e[8]).st = "ValueError"
              /\ e[9] = last.light_file
        /\ last.st = "failed"

\* The master dark is missing while the master bias is found, and the entry
\* is added to a pending log that already holds one.
C7_Witness ==
    /\ Reduced /\ AnyMissing
    /\ ResolutionOf(MASTER_BIAS).st = "ok"
    /\ last.ledger0.exists
    /\ Len(ledger.lines) = Len(last.ledger0.lines) + 1

\* C8: a reduction whose three offsets are 0 leaves the pending log as it
\* was; the log changes only when the reduction failed or had a non-zero
\* offset.
C8_ExactAppendsNothing ==
    Reduced =>
        /\ (AllResolved /\ ResolvedOffs = <<0, 0, 0>>) => ledger = last.ledger0
        /\ ledger # last.ledger0 =>
              \/ AnyMissing
              \/ AllResolved /\ \E i \in 1 .. 3 : ResolvedOffs[i] # 0

\* An exact-night reduction while the pending log holds an entry.
C8_Witness ==
    /\ Reduced /\ AllResolved /\ ResolvedOffs = <<0, 0, 0>>
    /\ last.st = "done"
    /\ last.ledger0.exists /\ Len(last.ledger0.lines) = 2
    /\ [path |-> last.light_file, offs |-> <<0, 0, 0>>] \in reduced

(***************************************************************************)
(* Claims about the retry pass (checked under SpecRetry).                  *)
(***************************************************************************)
InPass == pass.pc = "loop"
AfterPass == last.op = "rerun_pending"

PassSteps == IF InPass THEN pass.steps ELSE IF AfterPass THEN last.steps ELSE <<>>
PassPresent ==
    IF InPass THEN pass.present ELSE IF AfterPass THEN last.present ELSE <<0, 0, 0>>

\* The date a YYYY-MM-DD text stands for.
fromisoformat(s) ==
    IF /\ Len(s) = 10 /\ s[5] = "-" /\ s[8] = "-"
       /\ IsNatText(SubSeq(s, 1, 4)) /\ IsNatText(SubSeq(s, 6, 7))
       /\ IsNatText(SubSeq(s, 9, 10))
    THEN [st |-> "ok",
          date |-> <<NatVal(SubSeq(s, 1, 4)), NatVal(SubSeq(s, 6, 7)), NatVal(SubSeq(s, 9, 10))>>]
    ELSE [st |-> "ValueError", date |-> <<0, 0, 0>>]

\* The expiry date an entry carries: the date its Expires field stands for,
\* in the format of the pass or in the format the engine writes.
EntryExpiry(raw) ==
    LET text == strip(raw[8])
    IN IF strptime_dmY(text).st = "ok" THEN strptime_dmY(text) ELSE fromisoformat(text)

\* C9: in a retry pass an entry whose expiry date is strictly before the
\* current date is dropped, nothing being run or appended for it; an entry
\* whose expiry is the current date, later, or unset is not dropped.
C9_ExpiredDropped ==
    \A i \in 1 .. Len(PassSteps) :
        LET s == PassSteps[i]
            e == EntryExpiry(s.line)
            expired == e.st = "ok" /\ DateLess(e.date, PassPresent)
        IN /\ expired => (s.did = "continue" /\ s.added = <<>>)
           /\ ~expired => s.did # "continue"

\* C10: a retry pass reads every entry and overwrites the pending log with
\* its header before it reprocesses; from then on, and when the pass ends,
\* the log holds the header followed by exactly the lines appended during
\* the pass.
C10_LedgerRewritten ==
    /\ InPass =>
          /\ ledger.lines = <<savetxt(clmns, COMMA_SP)>> \o pass.appended
          /\ Len(pass.lines) + Len(pass.steps) = Len(pass.ledger0.lines) - 1
    /\ (AfterPass /\ last.ledger0.exists) =>
          ledger.lines = <<savetxt(clmns, COMMA_SP)>> \o last.appended

\* A pass over two entries has returned and left a different pending log.
C10_Witness ==
    /\ AfterPass /\ last.st = "returned"
    /\ Len(last.ledger0.lines) = 3
    /\ Len(last.steps) = 2
    /\ Len(last.appended) >= 1
    /\ ledger.lines # last.ledger0.lines

(***************************************************************************)
(* Claims about the pending log (checked under SpecReduce).                *)
(***************************************************************************)
\* The reduction in last went through a call of append_pending_log.
Appended == Reduced /\ last.st \in {"failed", "NameError"}

\* C14: an append to a pending log that does not exist creates it with the
\* header row followed by the entry; an append to an existing log adds
\* exactly one row at the end and leaves every earlier row as it was, also
\* when the log already holds a row equal to the entry.
C14_AppendOneRow ==
    Appended =>
        /\ ledger.exists
        /\ ledger.lines =
              Append(IF last.ledger0.exists THEN last.ledger0.lines
                     ELSE <<savetxt(clmns, COMMA_SP)>>,
                     ledger.lines[Len(ledger.lines)])
        /\ Entry(ledger.lines[Len(ledger.lines)])[2] = LIGHT_FILE
        /\ Entry(ledger.lines[Len(ledger.lines)])[9] = last.light_file

\* The entry appended is equal to a row the log already held.
C14_Witness ==
    /\ Appended /\ last.ledger0.exists
    /\ Len(ledger.lines) = Len(last.ledger0.lines) + 1
    /\ \E i \in 2 .. Len(last.ledger0.lines) :
          last.ledger0.lines[i] = ledger.lines[Len(ledger.lines)]

\* The nine fields the reduction in last passed to append_pending_log.
AppendedFields ==
    IF last.st = "failed"
    THEN failed_line(folder_datetime(last.light_file), get_file_info(last.light_file),
                     last.light_file)
    ELSE aged_line(folder_datetime(last.light_file), get_file_info(last.light_file),
                   last.light_file, last.offs)

\* C15: after an append, the last row read_pending_log returns has nine
\* fields, each equal string for string to the field that was appended.
C15_RoundTrip ==
    Appended =>
        LET rows == read_pending_log(ledger)
        IN /\ Len(rows[Len(rows)]) = 9
           /\ rows[Len(rows)] = AppendedFields

\* C16: the Expires field of an entry appended with an expiry date is read
\* back by strptime(..., "%d-%m-%Y"), the parse of the retry pass, as the
\* date that was written: the night's date plus the largest offset.
C16_ExpiryFormat ==
    (Appended /\ last.st = "NameError") =>
        strptime_dmY(Entry(ledger.lines[Len(ledger.lines)])[8]) =
            [st |-> "ok",
             date |-> PlusDays(folder_datetime(last.light_file), max_off(last.offs))]

Built == last.op \in {"create_mdark", "create_mflat"}

\* What get_closest_master gave the master frame build in last for one
\* frame type, in the store the build started from.
BuildResolutionOf(kind) ==
    LET cl == IF last.op = "create_mdark" THEN DarkClusters[last.index + 1]
              ELSE FlatClusters[last.index + 1]
    IN get_closest_master(last.store0, cor_dirs, lsrev, TheNight * TicksPerDay + cl.tick,
                          TheNight, CREATE_MAX_DAYS_OFF, cl.binning, kind, NOFILTER)

\* A resolution of the build in last raised SuitableMasterMissingError.
BuildMissing ==
    \/ BuildResolutionOf(MASTER_BIAS).st = "SuitableMasterMissingError"
    \/ /\ last.op = "create_mflat"
       /\ BuildResolutionOf(MASTER_BIAS).st = "ok"
       /\ BuildResolutionOf(MASTER_DARK).st = "SuitableMasterMissingError"

\* C18: reduce_img, create_mdark and create_mflat never end with the
\* SuitableMasterMissingError of the resolver: when a resolution raises it,
\* the call returns, having appended exactly one entry with "?" ages to the
\* pending log and saved nothing.
C18_MissingCaught ==
    /\ (Reduced \/ Built) => last.st # "SuitableMasterMissingError"
    /\ (Reduced /\ AnyMissing) =>
          /\ last.st = "failed"
          /\ Len(NewLines) = 1 /\ Entry(NewLines[1])[5] = QMARK
    /\ (Built /\ BuildMissing) =>
          /\ last.st = "failed"
          /\ store = last.store0
          /\ KeptLines
          /\ Len(NewLines) = 1 /\ Entry(NewLines[1])[5] = QMARK
          /\ Entry(NewLines[1])[2] =
                (IF last.op = "create_mdark" THEN DARK_FILE ELSE FLAT_FILE)

\* A master flat build finds the master bias but no master dark, and its
\* entry is added to a pending log that already holds one.
C18_Witness ==
    /\ last.op = "create_mflat" /\ last.st = "failed"
    /\ BuildResolutionOf(MASTER_BIAS).st = "ok"
    /\ BuildResolutionOf(MASTER_DARK).st = "SuitableMasterMissingError"
    /\ last.ledger0.exists
    /\ Len(ledger.lines) = Len(last.ledger0.lines) + 1

\* The clusters (Python indices) of the night that the path of an entry
\* belongs to: the cluster whose first exposure it is, or whose master frame
\* it is.
ProducingClusters(e) ==
    IF e[2] = DARK_FILE
    THEN {k \in 0 .. (Len(DarkClusters) - 1) :
            \/ e[9] = DarkClusters[k + 1].first
            \/ e[9] = savepath(TheNight, mdark_file(TheNight, DarkClusters[k + 1], k))}
    ELSE {k \in 0 .. (Len(FlatClusters) - 1) :
            \/ e[9] = FlatClusters[k + 1].first
            \/ e[9] = savepath(TheNight, mflat_file(TheNight, FlatClusters[k + 1],
                                                    FlatClusters[k + 1].fltr, k))}

\* C13: for every "Dark file" or "Flat file" entry a retry pass takes up,
\* the pass recovers the index of the cluster that produced the entry and
\* runs the resolver and the build for that cluster (recreate_mdark for a
\* dark, recreate_mflat for a flat); a master frame made again has the file
\* name of that cluster.
C13_RecreateSameCluster ==
    \A i \in 1 .. Len(PassSteps) :
        LET s == PassSteps[i]
            e == stripped(s.line)
        IN (Len(e) = 9 /\ e[2] \in {DARK_FILE, FLAT_FILE} /\ s.did # "continue") =>
              /\ s.did = (IF e[2] = DARK_FILE THEN "recreate_mdark" ELSE "recreate_mflat")
              /\ s.st \in {"done", "NameError"}
              /\ ProducingClusters(e) = {s.cluster}
              /\ \A k \in 1 .. Len(s.added) :
                    Entry(s.added[k])[9] \in {e[9]} \cup
                        {savepath(TheNight, mdark_file(TheNight, DarkClusters[c + 1], c)) :
                            c \in ProducingClusters(e)}

\* The entries (header excluded) the pending log held when the pass in last
\* started, as the pass read them.
PassEntries == Tail(read_pending_log(last.ledger0))

\* The resolver was called in a step of a pass: the step is a reduce_img
\* call, or a recreate call that got as far as its cluster.
ResolveInvoked(s) ==
    \/ s.did = "reduce_img"
    \/ s.did \in {"recreate_mdark", "recreate_mflat"} /\ s.st \in {"done", "NameError"}

\* C11: every entry of the pending log (a stale or failed light reduction,
\* master dark or master flat) that has not expired when a retry pass starts
\* is taken up by that pass: by the time the pass has ended, the resolver
\* was called again for it.
C11_UnexpiredRetried ==
    (AfterPass /\ last.ledger0.exists) =>
        \A i \in 1 .. Len(PassEntries) :
            LET e == EntryExpiry(PassEntries[i])
            IN ~(e.st = "ok" /\ DateLess(e.date, last.present)) =>
                  /\ i <= Len(last.steps)
                  /\ last.steps[i].line = PassEntries[i]
                  /\ ResolveInvoked(last.steps[i])

(***************************************************************************)
(* Claim about a night's run of the reduction (checked under SpecNight).   *)
(***************************************************************************)
\* C19: with the Correction directory of the night in place, reduce_imgs
\* calls reduce_img for every light file of the night, in DATE-OBS order,
\* and returns: no failed or aged reduction of one file keeps a later file
\* from being reduced.
C19_EveryLightAttempted ==
    (last.op = "reduce_imgs" /\ TheNight \in cor_dirs) =>
        /\ last.attempted = SortByDateObs(LightFiles)
        /\ last.st = "returned"

(***************************************************************************)
(* Claim about the cluster grouper (checked under SpecCluster).            *)
(***************************************************************************)
RECURSIVE Flatten(_)
Flatten(clusters) ==
    IF Len(clusters) = 0 THEN <<>> ELSE Head(clusters) \o Flatten(Tail(clusters))

\* C20: the clusters get_file_clusters returns for a list of exposures, in
\* whatever order the list is, hold every exposure of the list exactly once,
\* none of them is empty, and read one after the other they are in
\* ascending DATE-OBS order.
C20_ClustersPartition ==
    last.op = "get_file_clusters" =>
        LET all == Flatten(last.clusters)
        IN /\ Len(all) = Len(last.files)
           /\ \A i \in 1 .. Len(last.files) :
                 Cardinality({k \in 1 .. Len(all) : all[k] = last.files[i]}) = 1
           /\ \A c \in 1 .. Len(last.clusters) : Len(last.clusters[c]) > 0
           /\ \A k \in 1 .. (Len(all) - 1) : all[k].date_obs <= all[k + 1].date_obs

(***************************************************************************)
(* Claim about concurrent retry passes (checked under SpecRace).           *)
(***************************************************************************)
\* The log holds an entry for the file.
InLedger(light_file) ==
    \E i \in 2 .. Len(ledger.lines) : Entry(ledger.lines[i])[9] = light_file

\* A process has read an entry for the file: it still has to run it again,
\* or it has done so.
ReadBy(p, light_file) ==
    \/ \E i \in 1 .. Len(pass[p].lines) :
          Len(pass[p].lines[i]) = 9 /\ strip(pass[p].lines[i][9]) = light_file
    \/ \E i \in 1 .. Len(pass[p].steps) : strip(pass[p].steps[i][9]) = light_file

\* C17: reading the log and overwriting it are two steps of a retry pass.
\* The overwrite writes the header and nothing else, whatever the log has
\* got since the process read it, so an entry appended in between is erased
\* without having been read.
C17_RewriteDropsUnread ==
    [][\A p \in Procs :
          (pass[p].pc = "read" /\ pass'[p].pc = "loop") =>
              /\ Len(ledger'.lines) = 1
              /\ Entry(ledger'.lines[1]) = clmns]_vars

\* A failed reduction appended an unexpired entry for a light file after a
\* process had read the log; the process has overwritten the log since:
\* the entry is not in the log, no process has read it, none will run it
\* again.
C17_Witness ==
    /\ Reduced /\ last.st = "failed"
    /\ ~InLedger(last.light_file)
    /\ \A p \in Procs : ~ReadBy(p, last.light_file)
    /\ \E p \in Procs : pass[p].pc = "loop" /\ Len(pass[p].lines) > 0
    /\ \E p \in Procs : pass[p].pc = "idle"

(***************************************************************************)
(* Claims about where the cluster grouper splits (checked under            *)
(* SpecCluster).                                                           *)
(***************************************************************************)
\* C21: for a list of exposures in any order, get_file_clusters returns
\* clusters in which no two adjacent members are more than step seconds
\* apart, and the last member of a cluster and the first member of the next
\* are more than step seconds apart.
C21_SplitAtGaps ==
    (last.op = "get_file_clusters" /\ Len(last.files) > 0) =>
        /\ last.st = "returned"
        /\ \A c \in 1 .. Len(last.clusters) :
              /\ Len(last.clusters[c]) > 0
              /\ \A k \in 1 .. (Len(last.clusters[c]) - 1) :
                    last.clusters[c][k + 1].date_obs - last.clusters[c][k].date_obs
                        <= CLUSTER_STEP
        /\ \A c \in 1 .. (Len(last.clusters) - 1) :
              Head(last.clusters[c + 1]).date_obs
                  - last.clusters[c][Len(last.clusters[c])].date_obs > CLUSTER_STEP

\* C22: get_file_clusters on an empty list returns an empty list of clusters
\* and raises nothing, and on a list of one exposure it returns one cluster
\* that holds that exposure.
C22_EmptyAndSingle ==
    last.op = "get_file_clusters" =>
        /\ Len(last.files) = 0 => (last.st = "returned" /\ last.clusters = <<>>)
        /\ Len(last.files) = 1 => (last.st = "returned" /\ last.clusters = <<last.files>>)

(***************************************************************************)
(* Claims about the work and the effects of the resolver (checked under    *)
(* SpecResolve).                                                           *)
(***************************************************************************)
\* C29: every call of the resolver ends, by returning a frame or by raising
\* SuitableMasterMissingError, after examining at most max_days_off radii,
\* for every store and every horizon, 0 included.
C29_HorizonCapsRadii ==
    (Resolved /\ last.rq.night \in cor_dirs) =>
        /\ last.res.st \in {"ok", "SuitableMasterMissingError"}
        /\ radii_examined(store, cor_dirs, lsrev, last.rq.night, last.rq.max_days_off,
                          last.rq.binning, last.rq.frame_type, last.rq.fltr)
              <= last.rq.max_days_off

\* C27: a call of the resolver, whether it returns a frame or raises
\* SuitableMasterMissingError, leaves the store as it was (the same master
\* frame files in every partition, each with the content it had, and the
\* same partitions) and leaves the pending log as it was.
C27_ResolveReadsOnly ==
    [][(last.op = "none" /\ last'.op = "get_closest_master") =>
          /\ store' = store
          /\ headers' = headers
          /\ cor_dirs' = cor_dirs
          /\ ledger' = ledger]_vars

\* A call raised SuitableMasterMissingError against a store that holds
\* master frames in two partitions.
C27_Witness ==
    /\ Resolved /\ last.res.st = "SuitableMasterMissingError"
    /\ \E f, g \in store : f.day # g.day
    /\ ledger = NoLedger

(***************************************************************************)
(* Claim about the ages written to the pending log (checked under          *)
(* SpecRebuild).                                                           *)
(***************************************************************************)
\* The call in last appended an entry with ages: a reduction or a master
\* frame build with an aged master frame.
AgedEntry ==
    \/ Reduced /\ last.st = "NameError"
    \/ Built /\ last.st = "done" /\ Len(NewLines) = 1

AgeKinds == <<MASTER_BIAS, MASTER_DARK, MASTER_FLAT>>

\* The night of the file the call in last worked on, and the master frame
\* the resolver chose for it for one frame type.
EntryNight ==
    IF Reduced THEN NightOfDate(folder_datetime(last.light_file)) ELSE TheNight
EntryResolution(kind) ==
    IF Reduced THEN ResolutionOf(kind) ELSE BuildResolutionOf(kind)

\* C30 as stated: every integer age of an appended entry is the date of the
\* night of the corrected file minus the date of the partition of the master
\* frame the resolver chose for that frame type, in days.
C30_TargetMinusSource ==
    AgedEntry =>
        \A k \in 1 .. 3 :
            IsIntText(Entry(NewLines[1])[4 + k]) =>
                IntVal(Entry(NewLines[1])[4 + k])
                    = EntryNight - EntryResolution(AgeKinds[k]).file.day

\* C30 amended: every integer age of an appended entry is the date of the
\* partition of the master frame the resolver chose for that frame type
\* minus the date of the night of the corrected file, in days.
C30_SourceMinusTarget ==
    AgedEntry =>
        /\ Len(Entry(NewLines[1])) = 9
        /\ \A k \in 1 .. 3 :
              IsIntText(Entry(NewLines[1])[4 + k]) =>
                  IntVal(Entry(NewLines[1])[4 + k])
                      = EntryResolution(AgeKinds[k]).file.day - EntryNight

\* A master dark built with the master bias of the night before: the entry
\* holds the age -1.
C30_Witness ==
    /\ Built /\ last.op = "create_mdark" /\ last.st = "done"
    /\ BuildResolutionOf(MASTER_BIAS).file.day = EntryNight - 1
    /\ Len(NewLines) = 1
    /\ Entry(NewLines[1])[5] = IntStr(0 - 1)

(***************************************************************************)
(* Claim about master frame files made again (checked under SpecRebuild).  *)
(***************************************************************************)
\* The master dark and master flat file of a cluster (Python index) of the
\* observed night.
DarkFileOf(index) ==
    [day |-> TheNight, kind |-> MASTER_DARK, binning |-> DarkClusters[index + 1].binning,
     fltr |-> NOFILTER, idx |-> index + 1]

FlatFileOf(index) ==
    [day |-> TheNight, kind |-> MASTER_FLAT, binning |-> FlatClusters[index + 1].binning,
     fltr |-> FlatClusters[index + 1].fltr, idx |-> index + 1]

\* The step is a build of the cluster whose master frame is file  f : a call
\* of create_mdark or create_mflat for that cluster, or the iteration of a
\* retry pass over the Dark or Flat entry whose path is  f .
BuildsFile(f) ==
    \/ /\ last.op = "none" /\ last'.op = "create_mdark"
       /\ f = DarkFileOf(last'.index)
    \/ /\ last.op = "none" /\ last'.op = "create_mflat"
       /\ f = FlatFileOf(last'.index)
    \/ /\ pass.pc = "loop" /\ Len(pass.lines) > 0
       /\ Len(Head(pass.lines)) = 9
       /\ stripped(Head(pass.lines))[2] \in {DARK_FILE, FLAT_FILE}
       /\ stripped(Head(pass.lines))[9] = savepath(TheNight, f)

\* C28 as stated: over correction runs, reductions and retry passes, a
\* master frame file that exists keeps the content it had when it was first
\* written.
C28_MastersImmutable ==
    [][\A h \in headers : h \in headers']_vars

\* C28 amended: no master frame file is ever removed, and the content of a
\* master frame file changes only in a build of its own cluster, by
\* create_mdark, by create_mflat or by the retry pass over its own entry,
\* which overwrites it in place; reductions, resolutions and builds of other clusters leave
\* it as it was.
C28_OnlyOwnBuildRewrites ==
    [][/\ store \subseteq store'
       /\ \A h \in headers :
             /\ \E g \in headers' : g.file = h.file
             /\ h \notin headers' => BuildsFile(h.file)]_vars

\* A retry pass has made a master dark again with a master bias that
\* arrived after the master dark was first made: the file holds other
\* content than before the pass.
C28_Witness ==
    /\ last.op = "rerun_pending"
    /\ \E h \in headers : \E i \in 1 .. Len(last.steps) :
          /\ last.steps[i].did = "recreate_mdark" /\ last.steps[i].st = "done"
          /\ h.file = DarkFileOf(last.steps[i].cluster)
          /\ h.mbias.day > TheNight
          /\ \E g \in store : g.kind = MASTER_BIAS /\ g.day < TheNight

(***************************************************************************)
(* Claims about the start of a night: the check of the frames found and    *)
(* the builds of the correction run (checked under SpecStart).             *)
(***************************************************************************)
\* The frames of a cluster do not all have the same binning.
Mixed(files) == \E i, j \in 1 .. Len(files) : files[i].binning # files[j].binning

\* The path of the first frame whose binning is not that of the frame
\* before it.
Offending(files) ==
    files[CHOOSE k \in 2 .. Len(files) :
              /\ files[k].binning # files[k - 1].binning
              /\ \A j \in 2 .. (k - 1) : files[j].binning = files[j - 1].binning].name

\* The call of create_corrections made by the step.
MadeNow == run'.made[Len(run'.made)]

\* C23: a build of a master bias, master dark or master flat from a cluster
\* whose frames do not all have the same binning ends with
\* IncompatibleBinningError naming the first frame that differs, and leaves
\* the masters kept on the Observation and the master files as they were;
\* a master dark or master flat whose master frames were not found is not
\* handed to the builder and is entered in the pending log instead.
C23_MixedClusterRaises ==
    [][(run.pc = "corrections" /\ Len(run.calls) > 0 /\ Mixed(Head(run.calls).files))
          => /\ obs' = obs /\ store' = store /\ headers' = headers
             /\ MadeNow.files = Head(run.calls).files
             /\ \/ /\ MadeNow.st = "IncompatibleBinningError"
                   /\ MadeNow.err.file = Offending(MadeNow.files)
                   /\ MadeNow.err.f_binning # MadeNow.err.binning
                   /\ run'.err = "IncompatibleBinningError"
                \/ /\ MadeNow.kind # MASTER_BIAS
                   /\ MadeNow.st = "failed"
                   /\ Len(ledger'.lines) > Len(ledger.lines)]_vars

\* A master dark of frames of two binnings was handed to the builder, its
\* master bias found, and the build raised.
C23_Witness ==
    /\ run.pc = "raised" /\ run.err = "IncompatibleBinningError"
    /\ run.made[Len(run.made)].kind = MASTER_DARK
    /\ Mixed(run.made[Len(run.made)].files)
    /\ \E f \in store : f.kind = MASTER_BIAS
    /\ obs.masterDark = None

C25_MissingFramesFirst ==
    /\ (obs.made /\ Len(obs.biasFiles) = 0 /\ Len(obs.darkFiles) = 0
           /\ Len(obs.flatFiles) = 0)
          => run.pc = "raised" /\ run.err = "MissingFramesError"
    /\ (run.pc = "raised" /\ run.err = "MissingFramesError")
          => /\ Len(obs.biasFiles) = 0 /\ Len(obs.darkFiles) = 0
             /\ Len(obs.flatFiles) = 0
             /\ run.made = <<>> /\ cor_dirs = {}
             /\ store = {} /\ headers = {} /\ reduced = {}
             /\ ledger = NoLedger /\ last = NoCall

\* The check has refused a target that has light frames only.
C25_Witness ==
    /\ run.pc = "raised" /\ run.err = "MissingFramesError"
    /\ obs.made /\ Len(obs.biasFiles) = 0
    /\ ledger = NoLedger

(***************************************************************************)
(* Claim about the arithmetic of a reduction (checked under SpecPixel).    *)
(***************************************************************************)
\* C31: the reduced value of a pixel times the flat is the light minus the
\* bias minus the dark times the exposure time, also when that is negative;
\* for light 10, bias 2, dark 0.5 per second, 4 seconds and flat 2 it is 3.
C31_ReductionFormula ==
    last.op = "reduce_data" =>
        /\ last.hdu_data_red[2] > 0
        /\ last.hdu_data_red[1] * last.flat2 * 2
              = last.hdu_data_red[2] * 2
                  * (2 * last.light - 2 * last.bias - last.dark2 * last.exptime)
        /\ (2 * last.light - 2 * last.bias - last.dark2 * last.exptime < 0)
              => last.hdu_data_red[1] < 0
        /\ (last.light = 10 /\ last.bias = 2 /\ last.dark2 = 1 /\ last.exptime = 4
               /\ last.flat2 = 4)
              => last.hdu_data_red = <<3, 1>>

\* A pixel darker than its bias and dark current: the reduced value is
\* negative.
C31_Witness ==
    /\ last.op = "reduce_data"
    /\ last.light = 1 /\ last.bias = 5 /\ last.dark2 = 1 /\ last.exptime = 4
    /\ last.flat2 = 4
    /\ last.hdu_data_red = <<0 - 3, 1>>

(***************************************************************************)
(* Claim about the reading of header keywords (checked under SpecHeader).  *)
(***************************************************************************)
\* The cards a requested keyword is read from.
CardsOf(keyword) ==
    IF keyword = "IMGSIZE" THEN {"NAXIS1", "NAXIS2"}
    ELSE IF keyword = "BINNING" THEN {"XBINNING", "YBINNING"}
    ELSE {keyword}

\* C32: get_file_info returns one value for each requested keyword, in the
\* order of the request: "?" for a keyword whose cards are absent from the
\* header, and the value of the header for every other keyword.
C32_AbsentKeywordIsQuestionMark ==
    last.op = "get_file_info" =>
        /\ Len(last.results) = Len(last.header_keywords)
        /\ \A i \in 1 .. Len(last.header_keywords) :
              LET keyword == last.header_keywords[i]
              IN IF ~(CardsOf(keyword) \subseteq DOMAIN last.hduHeader)
                 THEN last.results[i] = [str |-> <<"?">>]
                 ELSE IF keyword = "FILTER" THEN last.results[i] = [str |-> <<"I">>]
                 ELSE IF keyword = "EXPTIME" THEN last.results[i] = [int |-> 4]
                 ELSE IF keyword = "BINNING"
                      THEN last.results[i] = [str |-> <<"2", "x", "1">>]
                 ELSE last.results[i] = [str |-> <<"5","1","2","x","2","5","6">>]

\* The filter is asked for first and is absent, the exposure time is asked
\* for second and is present.
C32_Witness ==
    /\ last.op = "get_file_info"
    /\ last.header_keywords = <<"FILTER", "EXPTIME">>
    /\ "FILTER" \notin DOMAIN last.hduHeader
    /\ last.results = <<[str |-> <<"?">>], [int |-> 4]>>

(***************************************************************************)
(* Claims about the upgrade of pending reductions by the retry pass.       *)
(***************************************************************************)
\* The pending log holds an entry of a light file.
PendingLight(light_file) ==
    /\ ledger.exists
    /\ \E i \in 2 .. Len(ledger.lines) :
          /\ Len(Entry(ledger.lines[i])) = 9
          /\ Entry(ledger.lines[i])[2] = LIGHT_FILE
          /\ Entry(ledger.lines[i])[9] = light_file

\* The store holds, in the partition of the night of the light file, a
\* master bias and a master dark of its binning and a master flat of its
\* binning and filter.
ExactNightMasters(light_file) ==
    LET light == get_file_info(light_file)
    IN \A k \in FrameTypes :
          \E f \in store :
             /\ f.kind = k /\ f.day = light.night /\ f.binning = light.binning
             /\ k = MASTER_FLAT => f.fltr = light.fltr

\* The light file was reduced with the offsets 0, 0, 0 and the pending log
\* holds no entry of it.
Upgraded(light_file) ==
    /\ [path |-> light_file, offs |-> <<0, 0, 0>>] \in reduced
    /\ ~PendingLight(light_file)

\* C33: when the pending log holds an entry of a light file and the master
\* frames of its own night are in the store to stay, the retry passes that
\* follow lead to the file being reduced with the offsets 0, 0, 0 and to no
\* entry of it being left in the pending log.
C33_UpgradeLiveness ==
    \A light_file \in LightPaths :
        [](PendingLight(light_file) /\ ExactNightMasters(light_file)
              => <>(Upgraded(light_file) \/ ~ExactNightMasters(light_file)))

\* The ages of an entry are three integers.
IntegerAges(e) == IsIntText(e[5]) /\ IsIntText(e[6]) /\ IsIntText(e[7])

\* An entry that reprocessing appended is no worse than the entry it was
\* reprocessed from: its ages are integers and none is larger in magnitude.
NoWorse(new, old) ==
    /\ IntegerAges(new)
    /\ IntegerAges(old) =>
          \A k \in 5 .. 7 : Abs(IntVal(new[k])) <= Abs(IntVal(old[k]))

\* C34: a Light entry with integer ages that a retry pass reprocesses is
\* re-appended, if at all, with integer ages of no larger magnitude, never
\* with "?" in their place (the store does not lose a master frame here).
C34_NeverWorse ==
    \A i \in 1 .. Len(PassSteps) :
        LET s == PassSteps[i]
        IN (s.did = "reduce_img" /\ IntegerAges(stripped(s.line))) =>
              \A j \in 1 .. Len(s.added) : NoWorse(Entry(s.added[j]), stripped(s.line))

\* A retry pass ended by an exception that reprocessing raised.
PassRaised == AfterPass /\ last.st \notin {"returned", "FileNotFoundError"}

\* The position, among the entries the pass drained, of the entry whose
\* reprocessing raised: the last one taken up, or the one after it when it
\* could not be unpacked into nine fields.
RaisedAt ==
    IF /\ Len(last.ledger0.lines) > Len(last.steps) + 1
       /\ Len(read_pending_log(last.ledger0)[Len(last.steps) + 2]) # 9
    THEN Len(last.steps) + 1
    ELSE Len(last.steps)

\* C35: when reprocessing an entry raises during a retry pass, every entry
\* that follows it in the pending log is still in the log when the pass has
\* ended (it was not reprocessed).
C35_FollowersKept ==
    PassRaised =>
        \A k \in RaisedAt + 2 .. Len(last.ledger0.lines) :
            \E j \in 1 .. Len(ledger.lines) : ledger.lines[j] = last.ledger0.lines[k]

\* The entries that were in the pending log when the pass in progress, or
\* the pass that has just ended, started.
DrainedEntries ==
    IF InPass THEN Tail(read_pending_log(pass.ledger0))
    ELSE IF AfterPass /\ last.ledger0.exists THEN Tail(read_pending_log(last.ledger0))
    ELSE <<>>

\* C36: the steps of a retry pass take up the entries that were in the
\* pending log at its start, one step for each entry and in their order,
\* never an entry appended during the pass; when the pass has ended every
\* one of them was taken up, and the log holds at most as many entries as
\* the pass started with.
C36_EachEntryOnce ==
    /\ Len(PassSteps) <= Len(DrainedEntries)
    /\ \A i \in 1 .. Len(PassSteps) : PassSteps[i].line = DrainedEntries[i]
    /\ (AfterPass /\ last.ledger0.exists) =>
          /\ Len(last.steps) = Len(DrainedEntries)
          /\ Len(ledger.lines) - 1 <= Len(DrainedEntries)

\* The header row as append_pending_log writes it.
HeaderRow ==
    <<"D","a","t","e",","," ","F","r","a","m","e"," ","t","y","p","e",","," ",
      "B","i","n","n","i","n","g",","," ","F","i","l","t","e","r",","," ",
      "B","I","A","S","-","A","G","E",","," ","D","A","R","K","-","A","G","E",","," ",
      "F","L","A","T","-","A","G","E",","," ","E","x","p","i","r","e","s",","," ",
      "P","a","t","h">>

\* C37: whatever reductions appended and retry passes did, a pending log
\* that exists has the header row as its first row, no other row equal to
\* the header, and nine fields in every other row.
C37_LedgerShape ==
    ledger.exists =>
        /\ Len(ledger.lines) >= 1
        /\ ledger.lines[1] = HeaderRow
        /\ \A i \in 2 .. Len(ledger.lines) :
              /\ ledger.lines[i] # HeaderRow
              /\ Len(Split(ledger.lines[i], ",")) = 9

\* A retry pass over two entries has returned, it re-appended an entry, and
\* a reduction has appended another one to the log the pass left.
C37_Witness ==
    /\ Reduced /\ last.st = "failed"
    /\ last.ledger0.exists /\ Len(last.ledger0.lines) = 2
    /\ Len(ledger.lines) = 3
    /\ ledger.lines[2] # ledger.lines[3]

(***************************************************************************)
(* Claim about the order of a night's correction run (checked under        *)
(* SpecStart).                                                             *)
(***************************************************************************)
\* The place of a kind of master frame in the loops of a binning.
KindOrder(kind) == IF kind = MASTER_BIAS THEN 1 ELSE IF kind = MASTER_DARK THEN 2 ELSE 3

\* The binning whose loop a call of create_corrections belongs to.
LoopBinning(c) == c.files[1].binning

\* A call of create_corrections that was made, for a cluster of frames of
\* one binning.
MadeFor(kind, binning) ==
    {j \in 1 .. Len(run.made) :
        /\ run.made[j].kind = kind /\ ~Mixed(run.made[j].files)
        /\ LoopBinning(run.made[j]) = binning}

Written(kind, binning) == \E j \in MadeFor(kind, binning) : run.made[j].st = "done"

\* The master dark and the master flat of the first cluster of a binning,
\* and the files a master frame of the night was built with.
NightDark(binning) ==
    [day |-> TheNight, kind |-> MASTER_DARK, binning |-> binning, fltr |-> NOFILTER,
     idx |-> 1]
NightFlat(binning) ==
    [day |-> TheNight, kind |-> MASTER_FLAT, binning |-> binning, fltr |-> FLT_I,
     idx |-> 1]
BuiltWith(f) == CHOOSE h \in headers : h.file = f

\* The pending log holds an entry of a frame type and a binning.
PendingMaster(frame_type, binning) ==
    /\ ledger.exists
    /\ \E i \in 2 .. Len(ledger.lines) :
          /\ Entry(ledger.lines[i])[2] = frame_type
          /\ Entry(ledger.lines[i])[3] = binning

\* C38: in the correction run of a night the calls of a binning are made
\* bias clusters first, dark clusters next, flat clusters last; so a master
\* dark built in a night with a master bias of its binning is built with
\* that master bias (offset 0), a master flat built in a night with a master
\* bias and a master dark of its binning with those, and neither is entered
\* in the pending log.
C38_BiasDarkFlatOrder ==
    run.pc = "corrections" =>
        /\ \A i, j \in 1 .. Len(run.made) :
              (LoopBinning(run.made[i]) = LoopBinning(run.made[j])
                  /\ KindOrder(run.made[i].kind) < KindOrder(run.made[j].kind)) => i < j
        /\ \A i \in 1 .. Len(run.calls), j \in 1 .. Len(run.made) :
              LoopBinning(run.calls[i]) = LoopBinning(run.made[j])
                  => KindOrder(run.made[j].kind) <= KindOrder(run.calls[i].kind)
        /\ \A binning \in Binnings :
              /\ (Written(MASTER_BIAS, binning) /\ MadeFor(MASTER_DARK, binning) # {}) =>
                    /\ Written(MASTER_DARK, binning)
                    /\ BuiltWith(NightDark(binning)).mbias.day = TheNight
                    /\ ~PendingMaster(DARK_FILE, binning)
              /\ (Written(MASTER_BIAS, binning) /\ Written(MASTER_DARK, binning)
                     /\ MadeFor(MASTER_FLAT, binning) # {}) =>
                    /\ Written(MASTER_FLAT, binning)
                    /\ BuiltWith(NightFlat(binning)).mbias.day = TheNight
                    /\ BuiltWith(NightFlat(binning)).mdark.day = TheNight
                    /\ ~PendingMaster(FLAT_FILE, binning)

\* A night with bias, dark and flat frames of one binning: the three master
\* frames were written, the master flat with the master bias and the
\* master dark of the night, and the pending log was not created.
C38_Witness ==
    /\ run.pc = "corrections" /\ Len(run.calls) = 0
    /\ Len(run.made) = 3
    /\ Written(MASTER_FLAT, BIN2)
    /\ BuiltWith(NightFlat(BIN2)).mdark = NightDark(BIN2)
    /\ ~ledger.exists

(***************************************************************************)
(* Claim about the expiry date of an entry (checked under SpecReduce).     *)
(***************************************************************************)
\* The ages of an entry that are integers, and the largest of their
\* absolute values.
AgesOf(e) == {IntVal(e[k]) : k \in {j \in 5 .. 7 : IsIntText(e[j])}}
LargestAbs(e) == CHOOSE m \in {Abs(a) : a \in AgesOf(e)} : \A a \in AgesOf(e) : Abs(a) <= m

\* C39: an entry of a stale result carries as its expiry the date of its
\* night plus as many days as the largest absolute value of its ages; an
\* entry of a failed resolution (an age "?") carries "-".
C39_ExpiryIsNightPlusLargest ==
    ledger.exists =>
        \A i \in 2 .. Len(ledger.lines) :
            LET e == Entry(ledger.lines[i])
            IN IF \E k \in 5 .. 7 : e[k] = QMARK
               THEN e[8] = DASH
               ELSE e[8] = isoformat(PlusDays(fromisoformat(e[1]).date, LargestAbs(e)))

====
